---- MODULE Spec2Model ----
(***************************************************************************)
(* A model of the sat_micro DPLL engines (crate dpll, module recursive):   *)
(* the Plain engine (recursive/plain.rs), the Cdcl engine                  *)
(* (recursive/cdcl.rs), the Backjump engine (its source file is not part   *)
(* of the tree, it is modelled from the specification), and the dispatch   *)
(* dpll::solve (lib.rs, recursive.rs).                                     *)
(*                                                                         *)
(* The recursion of `unsat` is an explicit stack of frames, one action per *)
(* step of `unsat`; `assume` and `bcp`, which are pure and mutually        *)
(* recursive, are RECURSIVE operators evaluated inside those actions.      *)
(* A panic is a result with tag "panic": it unwinds the stack like an Err. *)
(***************************************************************************)
EXTENDS Integers, Sequences, FiniteSets, TLC

VARIABLES formula, running, stack, ret, outcome, api, merged,
          clauseSt, assumeSt, runnerSt, splitSt, parserSt, funSt

(* The state of the engines and of dpll::solve. *)
solver == <<formula, running, stack, ret, outcome, api, merged>>

(* The state of the other parts of the program, one variable each: a       *)
(* Clause under construction, a Cdcl state driven through assume, the      *)
(* cross-check of the runner, the batch of Split::run, the parser, the     *)
(* functional Plain engine.                                                *)
others == <<clauseSt, assumeSt, runnerSt, splitSt, parserSt, funSt>>

vars == <<formula, running, stack, ret, outcome, api, merged,
          clauseSt, assumeSt, runnerSt, splitSt, parserSt, funSt>>

(* The value of a part that is not running. *)
Off == [on |-> FALSE]

(***************************************************************************)
(* Bounds of the exhaustive part of the inputs.                            *)
(***************************************************************************)
NumVars == 3
MaxClauses == 2

(***************************************************************************)
(* Literals: front::Lit {idx, neg}. A literal is a nonzero integer, its    *)
(* absolute value is idx and neg is its sign. The derived order compares   *)
(* idx first, then neg (false < true): 1 < -1 < 2 < -2 ...                 *)
(***************************************************************************)
Abs(x) == IF x < 0 THEN -x ELSE x

negate(lit) == -lit

LitLess(a, b) == Abs(a) < Abs(b) \/ (Abs(a) = Abs(b) /\ a > 0 /\ b < 0)

Literals == {l \in -NumVars..NumVars : l # 0}

(* A faulty variant of Clause::push: the literal goes to the end of the    *)
(* vector, with no search (C11).                                           *)
ClausePushBack(c, lit) == Append(c, lit)

(***************************************************************************)
(* Clause::push: ordered insertion, a literal already there is kept once.  *)
(***************************************************************************)
ClausePush(c, lit) ==
  IF \E i \in 1..Len(c) : c[i] = lit
    THEN c
    ELSE LET pos == Cardinality({i \in 1..Len(c) : LitLess(c[i], lit)})
         IN SubSeq(c, 1, pos) \o <<lit>> \o SubSeq(c, pos + 1, Len(c))

(***************************************************************************)
(* The clauses the parser builds (Parser::parse_clause pushes the literals *)
(* of a line into an empty clause): sorted, duplicate-free.                *)
(***************************************************************************)
RECURSIVE ClauseOf(_)
ClauseOf(S) ==
  IF S = {} THEN <<>>
  ELSE LET l == CHOOSE x \in S : TRUE IN ClausePush(ClauseOf(S \ {l}), l)

(***************************************************************************)
(* Results of the rules. tag: "ok" (a new state gamma, delta), "sat"       *)
(* (gamma is the model), "unsat" (deps, conflict: the UnsatRes of Cdcl;    *)
(* gamma records the environment at the raise), "panic" (msg).             *)
(* merged records that Cdcl::assume took its Occupied branch.              *)
(***************************************************************************)
Res(tag, gamma, delta, deps, conflict, msg, m) ==
  [tag |-> tag, gamma |-> gamma, delta |-> delta, deps |-> deps,
   conflict |-> conflict, msg |-> msg, merged |-> m]

NoRes == Res("none", {}, <<>>, {}, {}, "", FALSE)

Panic(msg) == Res("panic", {}, <<>>, {}, {}, msg, FALSE)

AssumeTwice == "trying to assume a literal twice"
EmptyDisjunct == "illegal empty disjunct in application of unsat rule"
Inconsistent == "inconsistent environment"
NotNew == "assertion failed: _is_new"
NotImplemented == "CDCL solver is not implemented yet"

(***************************************************************************)
(* A faulty variant of the inner loop of Plain::bcp: a literal whose        *)
(* negation is in gamma is taken for a true literal, the disjunct is        *)
(* discarded. Soundness (C1) does not survive it.                           *)
(***************************************************************************)
RECURSIVE PlainReduceNegTrue(_, _, _, _)
PlainReduceNegTrue(gamma, disj, i, new_clause) ==
  IF i > Len(disj) THEN <<FALSE, new_clause>>
  ELSE IF disj[i] \in gamma \/ negate(disj[i]) \in gamma
    THEN <<TRUE, new_clause>>
    ELSE PlainReduceNegTrue(gamma, disj, i + 1,
                            ClausePush(new_clause, disj[i]))

(***************************************************************************)
(* Plain: the inner loop of bcp over the literals of one disjunct.         *)
(* Returns <<TRUE, _>> when the disjunct is true in gamma, and             *)
(* <<FALSE, new_clause>> otherwise.                                        *)
(***************************************************************************)
RECURSIVE PlainReduce(_, _, _, _)
PlainReduce(gamma, disj, i, new_clause) ==
  IF i > Len(disj) THEN <<FALSE, new_clause>>
  ELSE IF disj[i] \in gamma THEN <<TRUE, new_clause>>
  ELSE IF negate(disj[i]) \in gamma
    THEN PlainReduce(gamma, disj, i + 1, new_clause)
    ELSE PlainReduce(gamma, disj, i + 1, ClausePush(new_clause, disj[i]))

RECURSIVE PlainBcpLoop(_, _, _, _)
RECURSIVE PlainAssume(_, _, _)

(* A faulty variant of Plain::bcp: the literal of a unit clause is put in   *)
(* the environment and the loop goes on, the disjuncts already kept in     *)
(* new.delta are not reduced again (C20).                                  *)
PlainBcpLoopOnePass(old, i, gamma, delta) ==
  IF i > Len(old) THEN Res("ok", gamma, delta, {}, {}, "", FALSE)
  ELSE LET r == PlainReduce(gamma, old[i], 1, <<>>)
           new_clause == r[2]
       IN IF r[1] THEN PlainBcpLoop(old, i + 1, gamma, delta)
          ELSE IF Len(new_clause) = 0
            THEN Res("unsat", gamma, <<>>, {}, {}, "", FALSE)
          ELSE IF Len(new_clause) = 1
            THEN PlainBcpLoop(old, i + 1, gamma \cup {new_clause[1]}, delta)
          ELSE PlainBcpLoop(old, i + 1, gamma, Append(delta, new_clause))

(* Plain::bcp: (gamma, delta) is the state new, old is self.delta and i    *)
(* the index of the disjunct the outer loop is at.                         *)
PlainBcpLoop(old, i, gamma, delta) ==
  IF i > Len(old) THEN Res("ok", gamma, delta, {}, {}, "", FALSE)
  ELSE LET r == PlainReduce(gamma, old[i], 1, <<>>)
           new_clause == r[2]
       IN IF r[1] THEN PlainBcpLoop(old, i + 1, gamma, delta)
          ELSE IF Len(new_clause) = 0
            THEN Res("unsat", gamma, <<>>, {}, {}, "", FALSE)
          ELSE IF Len(new_clause) = 1
            THEN LET a == PlainAssume(gamma, delta, new_clause[1])
                 IN IF a.tag = "ok"
                      THEN PlainBcpLoop(old, i + 1, a.gamma, a.delta)
                      ELSE a
          ELSE PlainBcpLoop(old, i + 1, gamma, Append(delta, new_clause))

(* A faulty variant of Plain::bcp: new.delta starts as a clone of          *)
(* self.delta, so the disjuncts that are true in gamma stay. The first      *)
(* literal of a later call of unsat is then already assumed (C10).          *)
PlainBcpKeepDelta(gamma, delta) == PlainBcpLoop(delta, 1, gamma, delta)

PlainBcp(gamma, delta) == PlainBcpLoop(delta, 1, gamma, <<>>)

(* A faulty variant of Plain::assume: the literal is not inserted, bcp     *)
(* runs on the environment as it was. The recursion of unsat then has no   *)
(* bound (C4).                                                             *)
PlainAssumeNoInsert(gamma, delta, lit) ==
  IF lit \notin gamma
    THEN PlainBcp(gamma, delta)
    ELSE Panic(AssumeTwice)

(* Plain::assume *)
PlainAssume(gamma, delta, lit) ==
  IF lit \notin gamma
    THEN PlainBcp(gamma \cup {lit}, delta)
    ELSE Panic(AssumeTwice)

(***************************************************************************)
(* Frames of the recursion of unsat. phase: "call" (unsat entered),        *)
(* "lit" (waiting for the branch assume(lit)), "nlit" (waiting for the     *)
(* branch assume(negate(lit))). deps and conflict are the locals of        *)
(* Cdcl::unsat.                                                            *)
(***************************************************************************)
Frame(gamma, delta) ==
  [gamma |-> gamma, delta |-> delta, phase |-> "call", lit |-> 0,
   deps |-> {}, conflict |-> {}]

Top == stack[Len(stack)]

Pop == SubSeq(stack, 1, Len(stack) - 1)

SetTop(f) == [stack EXCEPT ![Len(stack)] = f]

(* Plain::new *)
PlainNew(f) == Frame({}, f)

(* A faulty variant of Outcome::is_unsat: true of everything but Unsat,    *)
(* so that unsat returns the refutation of its first branch (C3).          *)
IsUnsatFlipped(e) == e.tag # "unsat"

(* Outcome::is_unsat *)
IsUnsat(e) == e.tag = "unsat"

(***************************************************************************)
(* A faulty variant of the entry of Plain::unsat: on an empty delta Sat is *)
(* raised with the empty model instead of gamma (C21).                     *)
(***************************************************************************)
PlainUnsatEmptyModel ==
  /\ running = "Plain"
  /\ stack # <<>>
  /\ Top.phase = "call"
  /\ ret.tag = "none"
  /\ IF Top.delta = <<>>
       THEN /\ ret' = Res("sat", {}, <<>>, {}, {}, "", FALSE)
            /\ stack' = Pop
     ELSE IF Top.delta[1] = <<>>
       THEN /\ ret' = Panic(EmptyDisjunct)
            /\ stack' = Pop
     ELSE LET lit == Top.delta[1][1]
              a == PlainAssume(Top.gamma, Top.delta, lit)
              me == [Top EXCEPT !.phase = "lit", !.lit = lit]
          IN IF a.tag = "ok"
               THEN /\ stack' = Append(SetTop(me), Frame(a.gamma, a.delta))
                    /\ ret' = ret
               ELSE /\ stack' = SetTop(me)
                    /\ ret' = a
  /\ UNCHANGED <<formula, running, outcome, api, merged>>
  /\ UNCHANGED others

(***************************************************************************)
(* Plain::unsat, from its entry to the call of assume(lit).                *)
(***************************************************************************)
PlainUnsat ==
  /\ running = "Plain"
  /\ stack # <<>>
  /\ Top.phase = "call"
  /\ ret.tag = "none"
  /\ IF Top.delta = <<>>
       THEN /\ ret' = Res("sat", Top.gamma, <<>>, {}, {}, "", FALSE)
            /\ stack' = Pop
     ELSE IF Top.delta[1] = <<>>
       THEN /\ ret' = Panic(EmptyDisjunct)
            /\ stack' = Pop
     ELSE LET lit == Top.delta[1][1]
              a == PlainAssume(Top.gamma, Top.delta, lit)
              me == [Top EXCEPT !.phase = "lit", !.lit = lit]
          IN IF a.tag = "ok"
               THEN /\ stack' = Append(SetTop(me), Frame(a.gamma, a.delta))
                    /\ ret' = ret
               ELSE /\ stack' = SetTop(me)
                    /\ ret' = a
  /\ UNCHANGED <<formula, running, outcome, api, merged>>
  /\ UNCHANGED others

(***************************************************************************)
(* A faulty variant of the step below: the branch of negate(lit) starts    *)
(* from the environment the branch of lit ended with, as if the two        *)
(* branches shared one mutable environment (C14).                          *)
(***************************************************************************)
PlainBacktrackShared ==
  /\ running = "Plain"
  /\ stack # <<>>
  /\ Top.phase = "lit"
  /\ ret.tag # "none"
  /\ IF ~IsUnsat(ret)
       THEN /\ stack' = Pop
            /\ ret' = ret
       ELSE LET a == PlainAssume(ret.gamma \ {negate(Top.lit)}, Top.delta,
                                negate(Top.lit))
                me == [Top EXCEPT !.phase = "nlit"]
            IN IF a.tag = "ok"
                 THEN /\ stack' = Append(SetTop(me), Frame(a.gamma, a.delta))
                      /\ ret' = NoRes
                 ELSE /\ stack' = Pop
                      /\ ret' = a
  /\ UNCHANGED <<formula, running, outcome, api, merged>>
  /\ UNCHANGED others

(***************************************************************************)
(* Plain::unsat, once the branch assume(lit) has ended: Sat is returned,   *)
(* Unsat leads to assume(negate(lit)).                                     *)
(***************************************************************************)
PlainBacktrack ==
  /\ running = "Plain"
  /\ stack # <<>>
  /\ Top.phase = "lit"
  /\ ret.tag # "none"
  /\ IF ~IsUnsat(ret)
       THEN /\ stack' = Pop
            /\ ret' = ret
       ELSE LET a == PlainAssume(Top.gamma, Top.delta, negate(Top.lit))
                me == [Top EXCEPT !.phase = "nlit"]
            IN IF a.tag = "ok"
                 THEN /\ stack' = Append(SetTop(me), Frame(a.gamma, a.delta))
                      /\ ret' = NoRes
                 ELSE /\ stack' = Pop
                      /\ ret' = a
  /\ UNCHANGED <<formula, running, outcome, api, merged>>
  /\ UNCHANGED others

(* Plain::unsat, once the branch assume(negate(lit)) has ended. *)
PlainReturn ==
  /\ running = "Plain"
  /\ stack # <<>>
  /\ Top.phase = "nlit"
  /\ ret.tag # "none"
  /\ stack' = Pop
  /\ ret' = ret
  /\ UNCHANGED <<formula, running, outcome, api, merged>>
  /\ UNCHANGED others

(***************************************************************************)
(* Cdcl. The environment is a map from literals to dependency sets: a      *)
(* function whose domain is the set of its keys. A labelled clause         *)
(* (LClause) is a record of a clause and its labels.                       *)
(***************************************************************************)
LClauseNewWith(clause, labels) == [clause |-> clause, labels |-> labels]

(* LClause::new, through From<Clause> *)
LClauseNew(clause) == LClauseNewWith(clause, {})

(* From<Cnf> for LCnf *)
LCnfFrom(cnf) == [i \in 1..Len(cnf) |-> LClauseNew(cnf[i])]

EmptyEnv == [l \in {} |-> {}]

(* A faulty variant of the insertion in the environment: the entry is    *)
(* dropped, the branch runs with the environment of its caller (C15).      *)
EnvInsertDropped(gamma, lit, cause) == gamma

EnvInsert(gamma, lit, cause) ==
  [l \in DOMAIN gamma \cup {lit} |-> IF l = lit THEN cause ELSE gamma[l]]

(* Cdcl::invariant: TRUE when the walk finds no complementary pair. *)
CdclInvariant(gamma) ==
  \A lit \in DOMAIN gamma : negate(lit) \notin DOMAIN gamma

(* A faulty variant of the loop of Cdcl::shift: negate(lit) is pushed and  *)
(* lit stays in the labels (C23).                                          *)
ShiftOneKeepLabel(lit, lclause) ==
  IF lit \in lclause.labels
    THEN LClauseNewWith(ClausePush(lclause.clause, negate(lit)),
                        lclause.labels)
    ELSE lclause

(* A faulty variant of the loop of Cdcl::shift: lit leaves the labels and  *)
(* negate(lit) is not pushed, the clause forgets the decision it rests on  *)
(* (C27).                                                                  *)
ShiftOneNoPush(lit, lclause) ==
  LClauseNewWith(lclause.clause, lclause.labels \ {lit})

(* A faulty variant of the clause of the loop below: the literals of a     *)
(* clause labelled with lit are dropped, negate(lit) alone is kept, and    *)
(* two clauses of the set may be rewritten to the same one (C30).          *)
ShiftOneUnit(lit, lclause) ==
  IF lit \in lclause.labels
    THEN LClauseNewWith(<<negate(lit)>>, lclause.labels \ {lit})
    ELSE lclause

(* Cdcl::shift, one clause of the loop. *)
ShiftOne(lit, lclause) ==
  IF lit \in lclause.labels
    THEN LClauseNewWith(ClausePush(lclause.clause, negate(lit)),
                        lclause.labels \ {lit})
    ELSE lclause

(* Cdcl::shift: the set res. *)
CdclShift(lit, lclauses) == {ShiftOne(lit, lc) : lc \in lclauses}

(* Cdcl::shift: debug_assert!(_is_new) holds for every insertion. *)
ShiftIsNew(lit, lclauses) ==
  Cardinality(CdclShift(lit, lclauses)) = Cardinality(lclauses)

(***************************************************************************)
(* Cdcl::bcp, the inner loop over the literals of one labelled clause.     *)
(* Returns <<TRUE, _, _>> when the clause is true in gamma, and            *)
(* <<FALSE, new_clause, new_deps>> otherwise.                              *)
(***************************************************************************)
(* A faulty variant: the dependencies of a false literal are dropped, the  *)
(* refutation then misses the decisions it rests on and unsat jumps over   *)
(* a branch it had to explore (C2).                                        *)
RECURSIVE CdclReduceNoDeps(_, _, _, _, _)
CdclReduceNoDeps(gamma, disj, i, new_clause, new_deps) ==
  IF i > Len(disj) THEN <<FALSE, new_clause, new_deps>>
  ELSE IF disj[i] \in DOMAIN gamma THEN <<TRUE, new_clause, new_deps>>
  ELSE IF negate(disj[i]) \in DOMAIN gamma
    THEN CdclReduceNoDeps(gamma, disj, i + 1, new_clause, new_deps)
    ELSE CdclReduceNoDeps(gamma, disj, i + 1,
                          ClausePush(new_clause, disj[i]), new_deps)

(* A faulty variant: a false literal is kept as an unknown one, so that    *)
(* propagation assumes the negation of a literal of the environment (C9).  *)
RECURSIVE CdclReduceKeepFalse(_, _, _, _, _)
CdclReduceKeepFalse(gamma, disj, i, new_clause, new_deps) ==
  IF i > Len(disj) THEN <<FALSE, new_clause, new_deps>>
  ELSE IF disj[i] \in DOMAIN gamma THEN <<TRUE, new_clause, new_deps>>
  ELSE CdclReduceKeepFalse(gamma, disj, i + 1,
                           ClausePush(new_clause, disj[i]), new_deps)

(* A faulty variant: a false literal contributes its negation, the key of   *)
(* the environment, instead of the dependency set recorded under that key  *)
(* (C22).                                                                  *)
RECURSIVE CdclReduceKeyAsDeps(_, _, _, _, _)
CdclReduceKeyAsDeps(gamma, disj, i, new_clause, new_deps) ==
  IF i > Len(disj) THEN <<FALSE, new_clause, new_deps>>
  ELSE IF disj[i] \in DOMAIN gamma THEN <<TRUE, new_clause, new_deps>>
  ELSE IF negate(disj[i]) \in DOMAIN gamma
    THEN CdclReduceKeyAsDeps(gamma, disj, i + 1, new_clause,
                             new_deps \cup {negate(disj[i])})
    ELSE CdclReduceKeyAsDeps(gamma, disj, i + 1,
                             ClausePush(new_clause, disj[i]), new_deps)

RECURSIVE CdclReduce(_, _, _, _, _)
CdclReduce(gamma, disj, i, new_clause, new_deps) ==
  IF i > Len(disj) THEN <<FALSE, new_clause, new_deps>>
  ELSE IF disj[i] \in DOMAIN gamma THEN <<TRUE, new_clause, new_deps>>
  ELSE IF negate(disj[i]) \in DOMAIN gamma
    THEN CdclReduce(gamma, disj, i + 1, new_clause,
                    new_deps \cup gamma[negate(disj[i])])
    ELSE CdclReduce(gamma, disj, i + 1, ClausePush(new_clause, disj[i]),
                    new_deps)

RECURSIVE CdclBcpLoop(_, _, _, _, _)
RECURSIVE CdclAssume(_, _, _, _, _)

(* Cdcl::bcp, the outer loop. m: the Occupied branch of assume was taken. *)
CdclBcpLoop(old, i, gamma, delta, m) ==
  IF i > Len(old) THEN Res("ok", gamma, delta, {}, {}, "", m)
  ELSE LET r == CdclReduce(gamma, old[i].clause, 1, <<>>, old[i].labels)
           new_clause == r[2]
           new_deps == r[3] \cup old[i].labels
       IN IF r[1] THEN CdclBcpLoop(old, i + 1, gamma, delta, m)
          ELSE IF Len(new_clause) = 0
            THEN Res("unsat", gamma, <<>>, new_deps, {}, "", m)
          ELSE IF Len(new_clause) = 1
            THEN LET a == CdclAssume(gamma, delta, new_clause[1], new_deps, m)
                 IN IF a.tag = "ok"
                      THEN CdclBcpLoop(old, i + 1, a.gamma, a.delta, a.merged)
                      ELSE a
          ELSE CdclBcpLoop(old, i + 1, gamma,
                           Append(delta, LClauseNewWith(new_clause, new_deps)),
                           m)

(* Cdcl::bcp *)
CdclBcp(gamma, delta, m) ==
  IF ~CdclInvariant(gamma) THEN Panic(Inconsistent)
  ELSE CdclBcpLoop(delta, 1, gamma, <<>>, m)

(* A faulty variant of Cdcl::assume: on a literal that is in the          *)
(* environment the new cause replaces the dependency set (C13).            *)
CdclAssumeOverwrite(gamma, delta, lit, cause, m) ==
  IF ~CdclInvariant(gamma) THEN Panic(Inconsistent)
  ELSE IF lit \in DOMAIN gamma
    THEN Res("ok", [gamma EXCEPT ![lit] = cause], delta, {}, {}, "", TRUE)
    ELSE CdclBcp(EnvInsert(gamma, lit, cause), delta, m)

(* Cdcl::assume *)
CdclAssume(gamma, delta, lit, cause, m) ==
  IF ~CdclInvariant(gamma) THEN Panic(Inconsistent)
  ELSE IF lit \in DOMAIN gamma
    THEN Res("ok", [gamma EXCEPT ![lit] = @ \cup cause], delta, {}, {}, "",
             TRUE)
    ELSE CdclBcp(EnvInsert(gamma, lit, cause), delta, m)

(* Cdcl::new *)
CdclNew(f) == Frame(EmptyEnv, LCnfFrom(f))

(***************************************************************************)
(* A faulty variant of the orders below: a clause is yielded cut to its    *)
(* first literal (C29).                                                    *)
(***************************************************************************)
OrdersCut(S) ==
  {[i \in 1..Cardinality(S) |->
      LClauseNewWith(SubSeq(s[i].clause, 1, 1), s[i].labels)] :
     s \in {t \in [1..Cardinality(S) -> S] :
              \A i, j \in 1..Cardinality(S) : i # j => t[i] # t[j]}}

(***************************************************************************)
(* The orders in which the iteration of a hash set may yield its elements. *)
(***************************************************************************)
Orders(S) ==
  {s \in [1..Cardinality(S) -> S] :
     \A i, j \in 1..Cardinality(S) : i # j => s[i] # s[j]}

(***************************************************************************)
(* Cdcl::unsat, from its entry to the call of assume(lit, {lit}).          *)
(***************************************************************************)
CdclUnsat ==
  /\ running = "Cdcl"
  /\ stack # <<>>
  /\ Top.phase = "call"
  /\ ret.tag = "none"
  /\ IF ~CdclInvariant(Top.gamma)
       THEN /\ ret' = Panic(Inconsistent)
            /\ stack' = Pop
            /\ merged' = merged
     ELSE IF Top.delta = <<>>
       THEN /\ ret' = Res("sat", DOMAIN Top.gamma, <<>>, {}, {}, "", FALSE)
            /\ stack' = Pop
            /\ merged' = merged
     ELSE IF Top.delta[1].clause = <<>>
       THEN /\ ret' = Panic(EmptyDisjunct)
            /\ stack' = Pop
            /\ merged' = merged
     ELSE LET lit == Top.delta[1].clause[1]
              a == CdclAssume(Top.gamma, Top.delta, lit, {lit}, FALSE)
              me == [Top EXCEPT !.phase = "lit", !.lit = lit]
          IN /\ merged' = (merged \/ a.merged)
             /\ IF a.tag = "ok"
                  THEN /\ stack' = Append(SetTop(me), Frame(a.gamma, a.delta))
                       /\ ret' = ret
                  ELSE /\ stack' = SetTop(me)
                       /\ ret' = a
  /\ UNCHANGED <<formula, running, outcome, api>>
  /\ UNCHANGED others

(***************************************************************************)
(* A faulty variant of the step below: the refutation of the branch of lit *)
(* is never handed up, negate(lit) is assumed whether or not lit is in the *)
(* dependency set (C24).                                                   *)
(***************************************************************************)
CdclBackjumpNever ==
  /\ running = "Cdcl"
  /\ stack # <<>>
  /\ Top.phase = "lit"
  /\ ret.tag # "none"
  /\ IF ret.tag # "unsat"
       THEN /\ stack' = Pop
            /\ ret' = ret
            /\ merged' = merged
     ELSE IF ~ShiftIsNew(Top.lit, ret.conflict)
       THEN /\ stack' = Pop
            /\ ret' = Panic(NotNew)
            /\ merged' = merged
     ELSE LET conflict == CdclShift(Top.lit, ret.conflict)
              deps == ret.deps \ {Top.lit}
          IN IF FALSE
               THEN /\ stack' = Pop
                    /\ ret' = [ret EXCEPT !.conflict = conflict]
                    /\ merged' = merged
               ELSE \E order \in Orders(conflict) :
                      LET a == CdclAssume(Top.gamma, Top.delta \o order,
                                          negate(Top.lit), deps, FALSE)
                          me == [Top EXCEPT !.phase = "nlit", !.deps = deps,
                                            !.conflict = conflict]
                      IN /\ merged' = (merged \/ a.merged)
                         /\ IF a.tag = "ok"
                              THEN /\ stack' = Append(SetTop(me),
                                                      Frame(a.gamma, a.delta))
                                   /\ ret' = NoRes
                              ELSE /\ stack' = Pop
                                   /\ ret' = a
  /\ UNCHANGED <<formula, running, outcome, api>>
  /\ UNCHANGED others

(***************************************************************************)
(* A faulty variant of the step below: lit is not removed from the         *)
(* dependency set, the cause of negate(lit) and the label of its unit      *)
(* clause hold a decision that is undone (C28).                            *)
(***************************************************************************)
CdclBackjumpKeepLit ==
  /\ running = "Cdcl"
  /\ stack # <<>>
  /\ Top.phase = "lit"
  /\ ret.tag # "none"
  /\ IF ret.tag # "unsat"
       THEN /\ stack' = Pop
            /\ ret' = ret
            /\ merged' = merged
     ELSE IF ~ShiftIsNew(Top.lit, ret.conflict)
       THEN /\ stack' = Pop
            /\ ret' = Panic(NotNew)
            /\ merged' = merged
     ELSE LET conflict == CdclShift(Top.lit, ret.conflict)
              deps == ret.deps
          IN IF Top.lit \notin ret.deps
               THEN /\ stack' = Pop
                    /\ ret' = [ret EXCEPT !.conflict = conflict]
                    /\ merged' = merged
               ELSE \E order \in Orders(conflict) :
                      LET a == CdclAssume(Top.gamma, Top.delta \o order,
                                          negate(Top.lit), deps, FALSE)
                          me == [Top EXCEPT !.phase = "nlit", !.deps = deps,
                                            !.conflict = conflict]
                      IN /\ merged' = (merged \/ a.merged)
                         /\ IF a.tag = "ok"
                              THEN /\ stack' = Append(SetTop(me),
                                                      Frame(a.gamma, a.delta))
                                   /\ ret' = NoRes
                              ELSE /\ stack' = Pop
                                   /\ ret' = a
  /\ UNCHANGED <<formula, running, outcome, api>>
  /\ UNCHANGED others

(***************************************************************************)
(* Cdcl::unsat, once the branch of lit has ended: the conflict clauses are *)
(* shifted, the refutation is returned when it does not depend on lit, and *)
(* otherwise negate(lit) is assumed, in delta extended with the conflict   *)
(* clauses when there are some (in the order the set yields them).         *)
(***************************************************************************)
CdclBackjump ==
  /\ running = "Cdcl"
  /\ stack # <<>>
  /\ Top.phase = "lit"
  /\ ret.tag # "none"
  /\ IF ret.tag # "unsat"
       THEN /\ stack' = Pop
            /\ ret' = ret
            /\ merged' = merged
     ELSE IF ~ShiftIsNew(Top.lit, ret.conflict)
       THEN /\ stack' = Pop
            /\ ret' = Panic(NotNew)
            /\ merged' = merged
     ELSE LET conflict == CdclShift(Top.lit, ret.conflict)
              deps == ret.deps \ {Top.lit}
          IN IF Top.lit \notin ret.deps
               THEN /\ stack' = Pop
                    /\ ret' = [ret EXCEPT !.conflict = conflict]
                    /\ merged' = merged
               ELSE \E order \in Orders(conflict) :
                      LET a == CdclAssume(Top.gamma, Top.delta \o order,
                                          negate(Top.lit), deps, FALSE)
                          me == [Top EXCEPT !.phase = "nlit", !.deps = deps,
                                            !.conflict = conflict]
                      IN /\ merged' = (merged \/ a.merged)
                         /\ IF a.tag = "ok"
                              THEN /\ stack' = Append(SetTop(me),
                                                      Frame(a.gamma, a.delta))
                                   /\ ret' = NoRes
                              ELSE /\ stack' = Pop
                                   /\ ret' = a
  /\ UNCHANGED <<formula, running, outcome, api>>
  /\ UNCHANGED others

(***************************************************************************)
(* A faulty variant of the step below: the unit clause of negate(lit) is   *)
(* not added to the conflict clauses (C25).                                *)
(***************************************************************************)
CdclLearnNoUnit ==
  /\ running = "Cdcl"
  /\ stack # <<>>
  /\ Top.phase = "nlit"
  /\ ret.tag # "none"
  /\ stack' = Pop
  /\ IF ret.tag # "unsat"
       THEN ret' = ret
       ELSE ret' = [ret EXCEPT !.conflict = Top.conflict \cup ret.conflict]
  /\ UNCHANGED <<formula, running, outcome, api, merged>>
  /\ UNCHANGED others

(***************************************************************************)
(* Cdcl::unsat, once the branch of negate(lit) has ended: the refutation   *)
(* is returned with the conflict clauses of both branches and the unit     *)
(* clause of negate(lit), labelled with deps.                              *)
(***************************************************************************)
CdclLearn ==
  /\ running = "Cdcl"
  /\ stack # <<>>
  /\ Top.phase = "nlit"
  /\ ret.tag # "none"
  /\ stack' = Pop
  /\ IF ret.tag # "unsat"
       THEN ret' = ret
       ELSE ret' = [ret EXCEPT !.conflict =
                      Top.conflict \cup ret.conflict \cup
                      {LClauseNewWith(<<negate(Top.lit)>>, Top.deps)}]
  /\ UNCHANGED <<formula, running, outcome, api, merged>>
  /\ UNCHANGED others

(***************************************************************************)
(* Backjump. Its source file is not in the tree: the engine is modelled    *)
(* from the specification, as the search of Cdcl that tracks the           *)
(* dependency sets and learns no clause.                                   *)
(***************************************************************************)
BackjumpNew(f) == Frame(EmptyEnv, LCnfFrom(f))

BackjumpUnsat ==
  /\ running = "Backjump"
  /\ stack # <<>>
  /\ Top.phase = "call"
  /\ ret.tag = "none"
  /\ IF Top.delta = <<>>
       THEN /\ ret' = Res("sat", DOMAIN Top.gamma, <<>>, {}, {}, "", FALSE)
            /\ stack' = Pop
     ELSE IF Top.delta[1].clause = <<>>
       THEN /\ ret' = Panic(EmptyDisjunct)
            /\ stack' = Pop
     ELSE LET lit == Top.delta[1].clause[1]
              a == CdclAssume(Top.gamma, Top.delta, lit, {lit}, FALSE)
              me == [Top EXCEPT !.phase = "lit", !.lit = lit]
          IN IF a.tag = "ok"
               THEN /\ stack' = Append(SetTop(me), Frame(a.gamma, a.delta))
                    /\ ret' = ret
               ELSE /\ stack' = SetTop(me)
                    /\ ret' = a
  /\ UNCHANGED <<formula, running, outcome, api, merged>>
  /\ UNCHANGED others

BackjumpJump ==
  /\ running = "Backjump"
  /\ stack # <<>>
  /\ Top.phase = "lit"
  /\ ret.tag # "none"
  /\ IF ret.tag # "unsat" \/ Top.lit \notin ret.deps
       THEN /\ stack' = Pop
            /\ ret' = ret
       ELSE LET deps == ret.deps \ {Top.lit}
                a == CdclAssume(Top.gamma, Top.delta, negate(Top.lit), deps,
                                FALSE)
                me == [Top EXCEPT !.phase = "nlit", !.deps = deps]
            IN IF a.tag = "ok"
                 THEN /\ stack' = Append(SetTop(me), Frame(a.gamma, a.delta))
                      /\ ret' = NoRes
                 ELSE /\ stack' = Pop
                      /\ ret' = a
  /\ UNCHANGED <<formula, running, outcome, api, merged>>
  /\ UNCHANGED others

BackjumpReturn ==
  /\ running = "Backjump"
  /\ stack # <<>>
  /\ Top.phase = "nlit"
  /\ ret.tag # "none"
  /\ stack' = Pop
  /\ ret' = ret
  /\ UNCHANGED <<formula, running, outcome, api, merged>>
  /\ UNCHANGED others

(***************************************************************************)
(* The callers. dpll::solve (lib.rs) hands the formula and the variant to  *)
(* recursive::solve, which builds the engine and calls its solve; the      *)
(* variants are asked for in the order of the runner (Plain, Backjump,     *)
(* Cdcl), each on its own clone of the formula. Cdcl::new(f).solve() is    *)
(* then called directly.                                                   *)
(***************************************************************************)
Dpll == <<"Plain", "Backjump", "Cdcl">>

Engines == {"Plain", "Backjump", "Cdcl"}

NoApi == [tag |-> "none", out |-> NoRes, msg |-> ""]

(* Outcome::into_unit_unsat *)
IntoUnitUnsat(r) ==
  IF r.tag = "unsat" THEN Res("unsat", {}, <<>>, {}, {}, "", FALSE) ELSE r

(* recursive::solve, the match on the variant. *)
RecursiveSolve(f, dpll) ==
  IF dpll = "Plain" THEN [tag |-> "run", frame |-> PlainNew(f)]
  ELSE IF dpll = "Backjump" THEN [tag |-> "run", frame |-> BackjumpNew(f)]
  ELSE [tag |-> "Err", frame |-> Frame({}, <<>>)]

(* dpll::solve: the call. *)
Solve(i) ==
  /\ running = "idle"
  /\ api[Dpll[i]].tag = "none"
  /\ \A j \in 1..(i - 1) : api[Dpll[j]].tag # "none"
  /\ LET r == RecursiveSolve(formula, Dpll[i])
     IN IF r.tag = "run"
          THEN /\ running' = Dpll[i]
               /\ stack' = <<r.frame>>
               /\ api' = api
          ELSE /\ api' = [api EXCEPT ![Dpll[i]] =
                            [tag |-> "Err", out |-> NoRes,
                             msg |-> NotImplemented]]
               /\ UNCHANGED <<running, stack>>
  /\ UNCHANGED <<formula, ret, outcome, merged>>
  /\ UNCHANGED others

(* Plain::solve and Backjump::solve return the outcome of unsat; *)
(* recursive::solve wraps it in Ok.                              *)
SolveReturn ==
  /\ running \in {"Plain", "Backjump"}
  /\ stack = <<>>
  /\ ret.tag # "none"
  /\ outcome' = [outcome EXCEPT ![running] = ret]
  /\ api' = [api EXCEPT ![running] =
               [tag |-> IF ret.tag = "panic" THEN "panic" ELSE "Ok",
                out |-> ret, msg |-> ret.msg]]
  /\ running' = "idle"
  /\ ret' = NoRes
  /\ UNCHANGED <<formula, stack, merged>>
  /\ UNCHANGED others

(* Cdcl::new(f).solve(): the call. *)
CdclSolve ==
  /\ running = "idle"
  /\ \A j \in 1..Len(Dpll) : api[Dpll[j]].tag # "none"
  /\ outcome["Cdcl"].tag = "none"
  /\ running' = "Cdcl"
  /\ stack' = <<CdclNew(formula)>>
  /\ UNCHANGED <<formula, ret, outcome, api, merged>>
  /\ UNCHANGED others

(* Cdcl::solve returns the outcome of unsat, its UnsatRes erased. *)
CdclSolveReturn ==
  /\ running = "Cdcl"
  /\ stack = <<>>
  /\ ret.tag # "none"
  /\ outcome' = [outcome EXCEPT !["Cdcl"] = IntoUnitUnsat(ret)]
  /\ running' = "idle"
  /\ ret' = NoRes
  /\ UNCHANGED <<formula, stack, api, merged>>
  /\ UNCHANGED others

(***************************************************************************)
(* The parser, after the header line. A text is the sequence of its lines. *)
(* A line is its first character (first: "c", "%", " " for white space,    *)
(* "d" for a digit or a sign) and the integers it holds (toks).            *)
(* Parser::parse_clause pushes the literals of a line up to its 0 and      *)
(* fails at the end of a line that has no 0.                               *)
(***************************************************************************)
Line(first, toks) == [first |-> first, toks |-> toks]

RECURSIVE ParseClause(_, _, _)
ParseClause(line, i, clause) ==
  IF i > Len(line) THEN [tag |-> "Err", clause |-> <<>>]
  ELSE IF line[i] = 0 THEN [tag |-> "Ok", clause |-> clause]
  ELSE ParseClause(line, i + 1, ClausePush(clause, line[i]))

(* A faulty variant of the end of input: a line that is 0 alone is read as *)
(* a clause line (C19).                                                    *)
IsEndNever(line) == FALSE

(* Parser::read_line: line_buf.trim() == "0" *)
IsEnd(line) == line.first \in {" ", "d"} /\ line.toks = <<0>>

(* Parser::read_line: the line begins with c or with % *)
IsComment(line) == line.first \in {"c", "%"}

(* Parser::read_line from line i of the text: 0 at the end of the text or  *)
(* on a line that is 0 alone, else the number of lines read, the comment   *)
(* lines that were skipped included.                                       *)
RECURSIVE ReadLine(_, _, _)
ReadLine(text, i, cnt) ==
  IF i > Len(text) \/ IsEnd(text[i]) THEN 0
  ELSE IF IsComment(text[i]) THEN ReadLine(text, i + 1, cnt + 1)
  ELSE cnt + 1

(* Parser::parse *)
RECURSIVE ParseLoop(_, _, _)
ParseLoop(text, i, cnf) ==
  LET lines_read == ReadLine(text, i, 0)
  IN IF lines_read = 0 THEN [tag |-> "Ok", cnf |-> cnf]
     ELSE LET c == ParseClause(text[i + lines_read - 1].toks, 1, <<>>)
          IN IF c.tag = "Err" THEN [tag |-> "Err", cnf |-> <<>>]
             ELSE ParseLoop(text, i + lines_read, Append(cnf, c.clause))

Parse(text) == ParseLoop(text, 1, <<>>)

(***************************************************************************)
(* The inputs: every formula of at most MaxClauses clauses over NumVars    *)
(* variables whose clauses have at most two literals (the empty clause,    *)
(* unit clauses, a literal with its negation and duplicate clauses         *)
(* included), the formulas the parser reads from short texts, and larger   *)
(* formulas that need nested decisions, among them formulas on which Cdcl  *)
(* learns several clauses in one branch.                                   *)
(***************************************************************************)
SmallClauses ==
  {ClauseOf(S) : S \in {T \in SUBSET Literals : Cardinality(T) <= 2}}

SmallFormulas ==
  UNION {[1..n -> SmallClauses] : n \in 0..MaxClauses}

Scenarios ==
  { <<>>,
    << <<1, 2>>, <<-1, -2>> >>,
    << <<1>>, <<-1>> >>,
    << <<>> >>,
    << <<1>>, <<1, 2>> >>,
    << <<1>>, <<-1, 2>>, <<-1, 2>> >>,
    << <<1, 2>>, <<1, -2>>, <<-1, 2>>, <<-1, -2>> >>,
    << <<1, 2, 3>>, <<-1, 2>>, <<-2, 3>>, <<1, -3>>, <<-1, -2, -3>> >>,
    << <<1, 2>>, <<3, 4>>, <<-1, -3>>, <<-2, -4>>, <<1, 3>>, <<-1, -2>> >>,
    << <<1, 2, 3>>, <<1, 2, -3>>, <<1, -2, 3>>, <<1, -2, -3>>,
       <<-1, 2, 3>>, <<-1, 2, -3>>, <<-1, -2, 3>>, <<-1, -2, -3>> >>,
    << <<-2>>, <<-1, 3, -4>>, <<3, 4>>, <<1, -4>>, <<-3, -4>>, <<2, -3, 4>> >>,
    << <<-1, 2>>, <<-2, 3, 4>>, <<2, 4>>, <<-3, 4>>, <<3, -4>>,
       <<1, -3, -4>> >>,
    << <<2>>, <<3, -5>>, <<-1, 4>>, <<-1, -2, -3>>, <<-1, -4>>, <<1, -4>>,
       <<1, 4>> >>,
    << <<-1>>, <<-2, 3>>, <<3, -4>>, <<3, 4>>, <<-3, -4>>, <<-3, 4>> >>,
    << <<-5>>, <<2, -4>>, <<-1, 3, -6>>, <<-3, -6>>, <<-3, 5, 6>>,
       <<1, -2, 3>>, <<3, 6>>, <<1, -6>> >>,
    << <<4, 6>>, <<1, 5>>, <<3, -5, -6>>, <<-3, -5>>, <<-2, -4, 5>>,
       <<-5, 6>>, <<2, 5>> >>,
    << <<4>>, <<-1, 5>>, <<3, -5, -6>>, <<2, -6>>, <<2, 6>>, <<1, -3, 5>>,
       <<-2, -3, -5>>, <<-2, -4, 5>>, <<-2, 6>> >>,
    << <<4, -6>>, <<-1, 5>>, <<3, -5, -6>>, <<2, -6>>, <<2, 6>>,
       <<1, -3, 5>>, <<-2, -3, -5>>, <<-2, -4, 5>>, <<-2, -5, 6>> >> }

Lines ==
  {Line("d", toks) :
     toks \in { <<0>>, <<0, 0>>, <<1, 0>>, <<-1, 0>>, <<1, 2, 0>>,
                <<2, 1, 1, 0>>, <<-2, 0, 3>>, <<1>> }}

Texts == UNION {[1..n -> Lines] : n \in 0..2}

ParsedFormulas == {Parse(t).cnf : t \in {u \in Texts : Parse(u).tag = "Ok"}}

Formulas == SmallFormulas \cup ParsedFormulas \cup Scenarios

Init ==
  /\ formula \in Formulas
  /\ running = "idle"
  /\ stack = <<>>
  /\ ret = NoRes
  /\ outcome = [e \in Engines |-> NoRes]
  /\ api = [e \in Engines |-> NoApi]
  /\ merged = FALSE
  /\ clauseSt = Off
  /\ assumeSt = Off
  /\ runnerSt = Off
  /\ splitSt = Off
  /\ parserSt = Off
  /\ funSt = Off

Next ==
  \/ \E i \in 1..Len(Dpll) : Solve(i)
  \/ SolveReturn
  \/ CdclSolve
  \/ CdclSolveReturn
  \/ PlainUnsat
  \/ PlainBacktrack
  \/ PlainReturn
  \/ BackjumpUnsat
  \/ BackjumpJump
  \/ BackjumpReturn
  \/ CdclUnsat
  \/ CdclBackjump
  \/ CdclLearn

Spec == Init /\ [][Next]_vars

(***************************************************************************)
(* The rest value of the engines, for the specifications of the other      *)
(* parts.                                                                  *)
(***************************************************************************)
SolverOff ==
  /\ formula = <<>>
  /\ running = "off"
  /\ stack = <<>>
  /\ ret = NoRes
  /\ outcome = [e \in Engines |-> NoRes]
  /\ api = [e \in Engines |-> NoApi]
  /\ merged = FALSE

(***************************************************************************)
(* Clause: the ways a Clause value is built. lits is the Vec of the        *)
(* clause, origin the constructor, last the last operation, panicked       *)
(* records the panic of Clause::invariant.                                 *)
(***************************************************************************)
MaxVec == 2
MaxLits == 3

Vectors == UNION {[1..n -> Literals] : n \in 0..MaxVec}

(* lits.sort(): the stable sort of a vector, by the order of Lit. *)
RECURSIVE SortVec(_)
SortVec(v) ==
  IF v = <<>> THEN <<>>
  ELSE LET rest == SortVec(Tail(v))
           pos == Cardinality({i \in 1..Len(rest) : LitLess(rest[i], Head(v))})
       IN SubSeq(rest, 1, pos) \o <<Head(v)>> \o SubSeq(rest, pos + 1, Len(rest))

(* Clause::invariant: TRUE when the walk finds no prev > lit. *)
ClauseInvariant(lits) ==
  \A i \in 1..(Len(lits) - 1) : ~LitLess(lits[i + 1], lits[i])

(* lits.binary_search(lit) followed by the insertion: the vectors push can *)
(* leave. On a sorted vector it is the ordered insertion of ClausePush; on *)
(* an unsorted one the result of binary_search is unspecified: the literal *)
(* is found (when it is there) or inserted at any position.                *)
PushResults(lits, lit) ==
  IF ClauseInvariant(lits) THEN {ClausePush(lits, lit)}
  ELSE {SubSeq(lits, 1, pos) \o <<lit>> \o SubSeq(lits, pos + 1, Len(lits)) :
          pos \in 0..Len(lits)}
       \cup (IF \E i \in 1..Len(lits) : lits[i] = lit THEN {lits} ELSE {})

ClauseSt(lits, origin, last, panicked) ==
  [on |-> TRUE, lits |-> lits, origin |-> origin, last |-> last,
   panicked |-> panicked]

(* Clause::empty and Clause::with_capacity *)
ClauseEmpty == ClauseSt(<<>>, "empty", 0, FALSE)

(* Clause::new *)
ClauseNew(v) ==
  LET lits == SortVec(v)
  IN ClauseSt(lits, "new", 0, ~ClauseInvariant(lits))

(* FromIterator for Clause *)
ClauseFromIter(v) == ClauseSt(v, "iter", 0, FALSE)

(* Clause::push *)
ClausePushStep ==
  /\ clauseSt.on
  /\ ~clauseSt.panicked
  /\ Len(clauseSt.lits) < MaxLits
  /\ \E lit \in Literals :
       \E lits \in PushResults(clauseSt.lits, lit) :
         clauseSt' = [clauseSt EXCEPT !.lits = lits, !.last = lit,
                                      !.panicked = ~ClauseInvariant(lits)]
  /\ UNCHANGED <<solver, funSt, assumeSt, runnerSt, splitSt, parserSt>>

(* Clause::clear *)
ClauseClear ==
  /\ clauseSt.on
  /\ ~clauseSt.panicked
  /\ clauseSt.lits # <<>>
  /\ clauseSt' = [clauseSt EXCEPT !.lits = <<>>, !.last = 0]
  /\ UNCHANGED <<solver, funSt, assumeSt, runnerSt, splitSt, parserSt>>

ClauseInit ==
  /\ SolverOff
  /\ funSt = Off
  /\ clauseSt \in {ClauseEmpty} \cup {ClauseNew(v) : v \in Vectors}
                  \cup {ClauseFromIter(v) : v \in Vectors}
  /\ assumeSt = Off
  /\ runnerSt = Off
  /\ splitSt = Off
  /\ parserSt = Off

ClauseNext ==
  \/ ClausePushStep
  \/ ClauseClear

ClauseSpec == ClauseInit /\ [][ClauseNext]_vars

(***************************************************************************)
(* Cdcl::assume called from outside the search: a Cdcl state built by      *)
(* Cdcl::new receives a sequence of calls of assume, each on the state the *)
(* call before returned. calls is the sequence of the <<lit, cause>> of    *)
(* the calls that returned a state, last the <<lit, cause>> of the last    *)
(* call, whatever it returned, merged tells that the last call took        *)
(* the Occupied branch and returned without running bcp.                   *)
(***************************************************************************)
MaxCalls == 3

AssumeFormulas ==
  { <<>>,
    << <<-1, 2>>, <<3, 4>>, <<-2, 3, -4>> >>,
    << <<-1, 2>>, <<-2, 3>>, <<1, 3>> >>,
    << <<1, -2>>, <<-1, -2>>, <<2, 3>> >> }

AssumeLits == {1, -1, 2}

AssumeCauses == SUBSET {1, -2}

AssumeCall ==
  /\ assumeSt.on
  /\ assumeSt.status = "ok"
  /\ Len(assumeSt.calls) < MaxCalls
  /\ \E lit \in AssumeLits, cause \in AssumeCauses :
       LET a == CdclAssume(assumeSt.gamma, assumeSt.delta, lit, cause, FALSE)
       IN IF a.tag = "ok"
            THEN assumeSt' = [assumeSt EXCEPT
                                !.gamma = a.gamma, !.delta = a.delta,
                                !.calls = Append(@, <<lit, cause>>),
                                !.last = <<lit, cause>>,
                                !.merged = a.merged]
            ELSE assumeSt' = [assumeSt EXCEPT !.status = a.tag,
                                              !.last = <<lit, cause>>]
  /\ UNCHANGED <<solver, funSt, clauseSt, runnerSt, splitSt, parserSt>>

AssumeInit ==
  /\ SolverOff
  /\ funSt = Off
  /\ assumeSt \in {[on |-> TRUE, status |-> "ok", gamma |-> CdclNew(f).gamma,
                    delta |-> CdclNew(f).delta, calls |-> <<>>,
                    last |-> <<>>, merged |-> FALSE] : f \in AssumeFormulas}
  /\ clauseSt = Off
  /\ runnerSt = Off
  /\ splitSt = Off
  /\ parserSt = Off

AssumeNext == AssumeCall

AssumeSpec == AssumeInit /\ [][AssumeNext]_vars

(***************************************************************************)
(* The runner, parse_run: the results of run_one on the variants (one      *)
(* result when a variant is given, one per variant of Dpll otherwise, in   *)
(* the order of the variants) are walked by the loop that cross-checks     *)
(* them. A result is Err, or Ok with Sat of a model (consistent or not) or *)
(* Unsat.                                                                  *)
(***************************************************************************)
RunErr == [tag |-> "Err", sat |-> FALSE, consistent |-> TRUE]
RunSat == [tag |-> "Ok", sat |-> TRUE, consistent |-> TRUE]
RunSatInconsistent == [tag |-> "Ok", sat |-> TRUE, consistent |-> FALSE]
RunUnsat == [tag |-> "Ok", sat |-> FALSE, consistent |-> TRUE]

RunResults == {RunErr, RunSat, RunSatInconsistent, RunUnsat}

DoNotAgree == "results do not agree on satisfiability"
InconsistentModel == "[fatal] inconsistent model"
RunFailed == "while running"

(* this_outcome.map(sat_action, unsat_action): Err on a model that holds a *)
(* literal and its negation, otherwise Ok(true) for Sat, Ok(false) for     *)
(* Unsat.                                                                  *)
SatOf(res) ==
  IF res.sat /\ ~res.consistent THEN [tag |-> "Err", sat |-> FALSE]
  ELSE [tag |-> "Ok", sat |-> res.sat]

(* A faulty variant of the iteration below: an outcome is never compared  *)
(* with the first one (C16).                                               *)
CheckOneNoCompare(is_sat, errors, res) ==
  IF res.tag = "Err" THEN <<is_sat, Append(errors, RunFailed)>>
  ELSE LET s == SatOf(res)
           sat == IF s.sat THEN "sat" ELSE "unsat"
       IN IF s.tag = "Err" THEN <<is_sat, Append(errors, InconsistentModel)>>
          ELSE IF is_sat = "none" THEN <<sat, errors>>
          ELSE <<is_sat, errors>>

(* One iteration of the loop over results: the new <<is_sat, errors>>.     *)
(* is_sat is "none", "sat" or "unsat".                                     *)
CheckOne(is_sat, errors, res) ==
  IF res.tag = "Err" THEN <<is_sat, Append(errors, RunFailed)>>
  ELSE LET s == SatOf(res)
           sat == IF s.sat THEN "sat" ELSE "unsat"
       IN IF s.tag = "Err" THEN <<is_sat, Append(errors, InconsistentModel)>>
          ELSE IF is_sat = "none" THEN <<sat, errors>>
          ELSE IF is_sat # sat THEN <<is_sat, Append(errors, DoNotAgree)>>
          ELSE <<is_sat, errors>>

RunnerCheck ==
  /\ runnerSt.on
  /\ runnerSt.ret = "none"
  /\ runnerSt.pos <= Len(runnerSt.results)
  /\ LET r == CheckOne(runnerSt.is_sat, runnerSt.errors,
                       runnerSt.results[runnerSt.pos])
     IN runnerSt' = [runnerSt EXCEPT !.is_sat = r[1], !.errors = r[2],
                                     !.pos = @ + 1]
  /\ UNCHANGED <<solver, funSt, clauseSt, assumeSt, splitSt, parserSt>>

RunnerReturn ==
  /\ runnerSt.on
  /\ runnerSt.ret = "none"
  /\ runnerSt.pos > Len(runnerSt.results)
  /\ runnerSt' = [runnerSt EXCEPT
                    !.ret = IF runnerSt.errors = <<>> THEN "Ok" ELSE "Err"]
  /\ UNCHANGED <<solver, funSt, clauseSt, assumeSt, splitSt, parserSt>>

RunnerInit ==
  /\ SolverOff
  /\ funSt = Off
  /\ runnerSt \in {[on |-> TRUE, results |-> rs, pos |-> 1, is_sat |-> "none",
                    errors |-> <<>>, ret |-> "none"] :
                     rs \in [1..1 -> RunResults]
                            \cup [1..Len(Dpll) -> RunResults]}
  /\ clauseSt = Off
  /\ assumeSt = Off
  /\ splitSt = Off
  /\ parserSt = Off

RunnerNext ==
  \/ RunnerCheck
  \/ RunnerReturn

RunnerSpec == RunnerInit /\ [][RunnerNext]_vars

(***************************************************************************)
(* Split::run. plan[f] is what run_on does on the benchmark file f of the  *)
(* source directory: the result of the solver ("sat", "unsat", "unknown")  *)
(* when the solver and the copy succeed, "fail" when one of them fails.    *)
(* The first file is the test run of the main thread; the others are the   *)
(* items of the parallel iterator, one task each, wpc[f] is the place of   *)
(* the task of f in the closure: "todo", "ran" (run_on returned Ok),       *)
(* "locked" (stats.write() returned the guard), "read" (stats.add has read *)
(* the counter), "done", "failed" (run_on returned Err). lock is the file  *)
(* whose task holds the write lock, 0 when it is free.                     *)
(***************************************************************************)
MaxFiles == 3

RunRes == {"sat", "unsat", "unknown"}

(* Stats::new *)
StatsNew == [sat |-> 0, unsat |-> 0, unknown |-> 0]

(* Stats::all *)
StatsAll(stats) == stats.sat + stats.unsat + stats.unknown

(* Stats::add *)
StatsAdd(stats, res) == [stats EXCEPT ![res] = @ + 1]

(* A faulty variant of the lock: the guard is given to every task that    *)
(* asks for it, as if the counters were shared with no lock (C18).         *)
CanLockAlways(st) == TRUE

(* RwLock::write: the guard is given when no task holds it. *)
CanLock(st) == st.lock = 0

Files(st) == 1..Len(st.plan)

Workers(st) == 2..Len(st.plan)

(* The test run on the first entry of src_reader. *)
SplitTestRun ==
  /\ splitSt.on
  /\ splitSt.pc = "test"
  /\ IF splitSt.plan = <<>>
       THEN splitSt' = [splitSt EXCEPT !.pc = "par"]
     ELSE IF splitSt.plan[1] = "fail"
       THEN splitSt' = [splitSt EXCEPT !.pc = "done", !.ret = "Err",
                                       !.ran = @ \cup {1}]
     ELSE splitSt' = [splitSt EXCEPT
                        !.pc = "par", !.ran = @ \cup {1},
                        !.sorted = @ \cup {1},
                        !.stats = StatsAdd(@, splitSt.plan[1])]
  /\ UNCHANGED <<solver, funSt, clauseSt, assumeSt, runnerSt, parserSt>>

(* The closure of the parallel map: self.run_on(&bench)? *)
SplitWorkerRun(f) ==
  /\ splitSt.on
  /\ splitSt.pc = "par"
  /\ splitSt.wpc[f] = "todo"
  /\ IF splitSt.plan[f] = "fail"
       THEN splitSt' = [splitSt EXCEPT !.wpc[f] = "failed",
                                       !.ran = @ \cup {f}]
       ELSE splitSt' = [splitSt EXCEPT !.wpc[f] = "ran", !.ran = @ \cup {f},
                                       !.sorted = @ \cup {f}]
  /\ UNCHANGED <<solver, funSt, clauseSt, assumeSt, runnerSt, parserSt>>

(* stats.write() *)
SplitWorkerLock(f) ==
  /\ splitSt.on
  /\ splitSt.wpc[f] = "ran"
  /\ CanLock(splitSt)
  /\ splitSt' = [splitSt EXCEPT !.wpc[f] = "locked", !.lock = f]
  /\ UNCHANGED <<solver, funSt, clauseSt, assumeSt, runnerSt, parserSt>>

(* update_progress, stats.add: the counters are read. *)
SplitWorkerRead(f) ==
  /\ splitSt.on
  /\ splitSt.wpc[f] = "locked"
  /\ splitSt' = [splitSt EXCEPT !.wpc[f] = "read", !.local[f] = splitSt.stats]
  /\ UNCHANGED <<solver, funSt, clauseSt, assumeSt, runnerSt, parserSt>>

(* update_progress, stats.add: the counter is written; the guard is dropped *)
(* at the end of the closure.                                               *)
SplitWorkerWrite(f) ==
  /\ splitSt.on
  /\ splitSt.wpc[f] = "read"
  /\ splitSt' = [splitSt EXCEPT
                   !.wpc[f] = "done",
                   !.stats = StatsAdd(splitSt.local[f], splitSt.plan[f]),
                   !.lock = IF @ = f THEN 0 ELSE @]
  /\ UNCHANGED <<solver, funSt, clauseSt, assumeSt, runnerSt, parserSt>>

(* reduce, and the return of run. *)
SplitReduce ==
  /\ splitSt.on
  /\ splitSt.pc = "par"
  /\ \A f \in Workers(splitSt) : splitSt.wpc[f] \in {"done", "failed"}
  /\ splitSt' = [splitSt EXCEPT
                   !.pc = "done",
                   !.ret = IF \E f \in Workers(splitSt) :
                                splitSt.wpc[f] = "failed"
                             THEN "Err" ELSE "Ok"]
  /\ UNCHANGED <<solver, funSt, clauseSt, assumeSt, runnerSt, parserSt>>

SplitInit ==
  /\ SolverOff
  /\ funSt = Off
  /\ splitSt \in {[on |-> TRUE, plan |-> plan, pc |-> "test",
                   wpc |-> [f \in 1..Len(plan) |-> "todo"],
                   local |-> [f \in 1..Len(plan) |-> StatsNew],
                   lock |-> 0, stats |-> StatsNew, ran |-> {}, sorted |-> {},
                   ret |-> "none"] :
                    plan \in UNION {[1..n -> RunRes \cup {"fail"}] :
                                      n \in 0..MaxFiles}}
  /\ clauseSt = Off
  /\ assumeSt = Off
  /\ runnerSt = Off
  /\ parserSt = Off

SplitNext ==
  \/ SplitTestRun
  \/ \E f \in Workers(splitSt) : SplitWorkerRun(f)
  \/ \E f \in Workers(splitSt) : SplitWorkerLock(f)
  \/ \E f \in Workers(splitSt) : SplitWorkerRead(f)
  \/ \E f \in Workers(splitSt) : SplitWorkerWrite(f)
  \/ SplitReduce

SplitSpec == SplitInit /\ [][SplitNext]_vars

(***************************************************************************)
(* Parser::parse, one turn of its loop at a time. pos is the next line of  *)
(* the reader, line the field line of the parser (lines read after the     *)
(* header), cnf the clauses pushed so far.                                 *)
(***************************************************************************)
MaxLines == 3

ParserLines ==
  {Line(first, toks) :
     first \in {"d", " "},
     toks \in { <<>>, <<0>>, <<0, 0>>, <<1, 0>>, <<2, -1, 2, 0>>, <<-2>> }}
  \cup {Line("c", <<>>), Line("c", <<0>>), Line("%", <<1, 0>>)}

ParserTexts == UNION {[1..n -> ParserLines] : n \in 0..MaxLines}

(* One turn of the loop where read_line finds a line to parse. *)
ParserClause ==
  /\ parserSt.on
  /\ parserSt.status = "parsing"
  /\ LET lines_read == ReadLine(parserSt.text, parserSt.pos, 0)
         at == parserSt.pos + lines_read - 1
     IN /\ lines_read # 0
        /\ LET c == ParseClause(parserSt.text[at].toks, 1, <<>>)
           IN parserSt' =
                IF c.tag = "Err"
                  THEN [parserSt EXCEPT !.status = "Err",
                                        !.pos = at + 1,
                                        !.line = @ + lines_read]
                  ELSE [parserSt EXCEPT !.pos = at + 1,
                                        !.line = @ + lines_read,
                                        !.cnf = Append(@, c.clause),
                                        !.from = Append(@, at)]
  /\ UNCHANGED <<solver, funSt, clauseSt, assumeSt, runnerSt, splitSt>>

(* The turn of the loop where read_line returns 0: Ok(self.cnf). *)
ParserEnd ==
  /\ parserSt.on
  /\ parserSt.status = "parsing"
  /\ ReadLine(parserSt.text, parserSt.pos, 0) = 0
  /\ parserSt' = [parserSt EXCEPT !.status = "Ok"]
  /\ UNCHANGED <<solver, funSt, clauseSt, assumeSt, runnerSt, splitSt>>

ParserInit ==
  /\ SolverOff
  /\ funSt = Off
  /\ parserSt \in {[on |-> TRUE, text |-> text, pos |-> 1, line |-> 0,
                    cnf |-> <<>>, from |-> <<>>, status |-> "parsing"] :
                     text \in ParserTexts}
  /\ clauseSt = Off
  /\ assumeSt = Off
  /\ runnerSt = Off
  /\ splitSt = Off

ParserNext == ParserClause \/ ParserEnd

ParserSpec == ParserInit /\ [][ParserNext]_vars

(***************************************************************************)
(* The functional Plain engine (functional/plain.rs). R is Sat(gamma) or   *)
(* Unsat. In bcp the tests of the literals read the environment of self    *)
(* (the pattern let Self { gamma, .. } = self), not the one of new, which  *)
(* grows with the unit clauses. assume on a literal that is in the         *)
(* environment returns the clone of self.                                  *)
(***************************************************************************)
FunOverflow == "stack overflow"

RECURSIVE FunBcpLoop(_, _, _, _, _)
RECURSIVE FunAssume(_, _, _)

(* functional Plain::bcp: self_gamma is self.gamma, (gamma, delta) is new. *)
FunBcpLoop(self_gamma, old, i, gamma, delta) ==
  IF i > Len(old) THEN Res("ok", gamma, delta, {}, {}, "", FALSE)
  ELSE LET r == PlainReduce(self_gamma, old[i], 1, <<>>)
           new_clause == r[2]
       IN IF r[1] THEN FunBcpLoop(self_gamma, old, i + 1, gamma, delta)
          ELSE IF Len(new_clause) = 0
            THEN Res("unsat", gamma, <<>>, {}, {}, "", FALSE)
          ELSE IF Len(new_clause) = 1
            THEN LET a == FunAssume(gamma, delta, new_clause[1])
                 IN IF a.tag = "ok"
                      THEN FunBcpLoop(self_gamma, old, i + 1, a.gamma, a.delta)
                      ELSE a
          ELSE FunBcpLoop(self_gamma, old, i + 1, gamma,
                          Append(delta, new_clause))

FunBcp(gamma, delta) == FunBcpLoop(gamma, delta, 1, gamma, <<>>)

(* functional Plain::assume *)
FunAssume(gamma, delta, lit) ==
  IF lit \notin gamma
    THEN FunBcp(gamma \cup {lit}, delta)
    ELSE Res("ok", gamma, delta, {}, {}, "", FALSE)

(* functional Plain::unsat. Each ? returns the Err it is given, and unsat *)
(* returns nothing but Err: the lines after new.unsat()? are never run.   *)
(* When lit is in the environment assume returns the state of self and    *)
(* unsat calls itself on it without end.                                  *)
RECURSIVE FunUnsat(_, _)
FunUnsat(gamma, delta) ==
  IF delta = <<>> THEN Res("sat", gamma, <<>>, {}, {}, "", FALSE)
  ELSE IF delta[1] = <<>> THEN Panic(EmptyDisjunct)
  ELSE IF delta[1][1] \in gamma THEN Panic(FunOverflow)
  ELSE LET a == FunAssume(gamma, delta, delta[1][1])
       IN IF a.tag = "ok" THEN FunUnsat(a.gamma, a.delta) ELSE a

(* functional Plain::new and solve *)
FunSolve(f) == FunUnsat({}, f)

FunRun ==
  /\ funSt.on
  /\ funSt.out.tag = "none"
  /\ funSt' = [funSt EXCEPT !.out = FunSolve(funSt.formula)]
  /\ UNCHANGED <<solver, clauseSt, assumeSt, runnerSt, splitSt, parserSt>>

FunInit ==
  /\ SolverOff
  /\ funSt \in {[on |-> TRUE, formula |-> f, out |-> NoRes] : f \in Formulas}
  /\ clauseSt = Off
  /\ assumeSt = Off
  /\ runnerSt = Off
  /\ splitSt = Off
  /\ parserSt = Off

FunNext == FunRun

FunSpec == FunInit /\ [][FunNext]_vars

(***************************************************************************)
(* Notions the properties are stated with.                                 *)
(***************************************************************************)
LitsOf(F) == UNION {{F[i][j] : j \in 1..Len(F[i])} : i \in 1..Len(F)}

VarsOf(F) == {Abs(l) : l \in LitsOf(F)}

Satisfies(M, F) ==
  \A i \in 1..Len(F) : \E j \in 1..Len(F[i]) : F[i][j] \in M

Consistent(M) == \A l \in M : negate(l) \notin M

Satisfiable(F) ==
  \E P \in SUBSET VarsOf(F) :
    Satisfies(P \cup {negate(v) : v \in VarsOf(F) \ P}, F)

(* The literals of an environment of engine e. *)
Keys(e, gamma) == IF e = "Plain" THEN gamma ELSE DOMAIN gamma

Done == running = "idle" /\ outcome["Cdcl"].tag # "none"

(***************************************************************************)
(* C1. Soundness: whenever Plain.solve or Cdcl.solve returns Sat(M), every *)
(* clause of the formula holds a literal of M and M holds no literal       *)
(* together with its negation.                                             *)
(***************************************************************************)
C1_Soundness ==
  \A e \in {"Plain", "Cdcl"} :
    outcome[e].tag = "sat" =>
      /\ Satisfies(outcome[e].gamma, formula)
      /\ Consistent(outcome[e].gamma)

C1_Witness ==
  /\ outcome["Plain"].tag = "sat"
  /\ outcome["Cdcl"].tag = "sat"
  /\ Len(formula) >= 3
  /\ Cardinality(outcome["Cdcl"].gamma) >= 3

C3_PlainUnsatComplete ==
  /\ [](outcome["Plain"].tag = "unsat" => ~Satisfiable(formula))
  /\ [][(running = "Plain" /\ stack # <<>> /\ Len(stack') < Len(stack)
         /\ ret'.tag = "unsat")
        => (Top.phase = "nlit"
            \/ (Top.phase = "lit" /\ ret.tag = "unsat"
                /\ negate(Top.lit) \in ret'.gamma))]_vars

C3_Witness ==
  /\ outcome["Plain"].tag = "unsat"
  /\ Len(formula) >= 4

(***************************************************************************)
(* C4. Termination of Plain.solve and Cdcl.solve, as a variant: while an   *)
(* engine runs, every step of unsat strictly decreases StackRank, a        *)
(* natural number, and a step is possible until solve has its outcome.     *)
(* A frame at depth k weighs its remaining phases times 4^(D - k), where D *)
(* is the number of variables of the formula plus one; a frame deeper than *)
(* D weighs nothing, so a recursion that goes deeper breaks the decrease.  *)
(***************************************************************************)
MaxDepth == Cardinality(VarsOf(formula)) + 1

PhaseRank(phase) ==
  IF phase = "call" THEN 3 ELSE IF phase = "lit" THEN 2 ELSE 1

RECURSIVE RankFrom(_, _)
RankFrom(s, k) ==
  IF k > Len(s) \/ k > MaxDepth THEN 0
  ELSE PhaseRank(s[k].phase) * 4 ^ (MaxDepth - k) + RankFrom(s, k + 1)

StackRank(s) == RankFrom(s, 1)

CanStep ==
  IF stack = <<>> THEN ret.tag # "none"
  ELSE (Top.phase = "call") <=> (ret.tag = "none")

C4_Termination ==
  /\ [](running \in {"Plain", "Cdcl"} => CanStep)
  /\ [][(running \in {"Plain", "Cdcl"} /\ running' = running)
        => StackRank(stack') < StackRank(stack)]_vars

C4_Witness ==
  /\ Done
  /\ outcome["Plain"].tag = "unsat"
  /\ outcome["Cdcl"].tag = "unsat"
  /\ Cardinality(VarsOf(formula)) >= 3

(***************************************************************************)
(* C5. For every Cnf value given to Plain::new or Cdcl::new, solve ends    *)
(* with Sat or Unsat: the panic on an empty disjunct is not reached.       *)
(***************************************************************************)
C5_NoEmptyDisjunctPanic ==
  \A e \in {"Plain", "Cdcl"} :
    outcome[e].tag # "none" =>
      /\ outcome[e].tag \in {"sat", "unsat"}
      /\ outcome[e].msg # EmptyDisjunct

(***************************************************************************)
(* C6. dpll::solve(formula, variant) returns, for each of the three        *)
(* variants, the outcome of the engine the variant selects.                *)
(***************************************************************************)
C6_SolveRunsEveryVariant ==
  \A e \in Engines :
    api[e].tag # "none" =>
      /\ api[e].tag # "Err"
      /\ api[e].out.tag = outcome[e].tag

(***************************************************************************)
(* C7. The text of the single clause line 0 is reported Unsat, and so is   *)
(* every formula that holds an empty clause from the start, by Plain.solve *)
(* and by Cdcl.solve.                                                      *)
(***************************************************************************)
HasEmptyClause(F) == \E i \in 1..Len(F) : F[i] = <<>>

EmptyClauseText == << Line("d", <<0>>) >>

C7_EmptyClauseIsUnsat ==
  (formula = Parse(EmptyClauseText).cnf \/ HasEmptyClause(formula)) =>
    \A e \in {"Plain", "Cdcl"} : outcome[e].tag \in {"none", "unsat"}

(***************************************************************************)
(* C8. Propagation precedes branching: once Plain::unsat or Cdcl::unsat    *)
(* has chosen its first decision literal, the literal of every unit clause *)
(* of the formula is in the environment of that call.                      *)
(***************************************************************************)
C8_PropagationPrecedesBranching ==
  (running \in {"Plain", "Cdcl"} /\ stack # <<>> /\ stack[1].phase # "call")
    => \A i \in 1..Len(formula) :
         Len(formula[i]) = 1 =>
           formula[i][1] \in Keys(running, stack[1].gamma)

(***************************************************************************)
(* C9. The environment never holds a literal together with its negation:   *)
(* in the state of every call of unsat, at every raise of Unsat, in every  *)
(* model; the panic of Cdcl::invariant is never raised.                    *)
(***************************************************************************)
C9_EnvConsistent ==
  /\ running \in {"Plain", "Cdcl"} =>
       /\ \A k \in 1..Len(stack) : Consistent(Keys(running, stack[k].gamma))
       /\ ret.tag = "unsat" => Consistent(Keys(running, ret.gamma))
       /\ ret.tag = "sat" => Consistent(ret.gamma)
       /\ ret.msg # Inconsistent
  /\ \A e \in {"Plain", "Cdcl"} : outcome[e].msg # Inconsistent

C9_Witness ==
  /\ running = "Cdcl"
  /\ Len(stack) >= 3
  /\ Cardinality(DOMAIN Top.gamma) >= 3

(***************************************************************************)
(* C10. Every call of assume receives a literal that is not in the         *)
(* environment: the decision literal and its negation are not in the       *)
(* environment of the call of unsat, Plain never panics on a literal       *)
(* assumed twice, and Cdcl::assume never takes its merge branch.           *)
(***************************************************************************)
C10_AssumeIsNew ==
  /\ merged = FALSE
  /\ ret.msg # AssumeTwice
  /\ \A e \in Engines : outcome[e].msg # AssumeTwice
  /\ \A k \in 1..Len(stack) :
       (running \in {"Plain", "Cdcl"} /\ stack[k].phase # "call") =>
         /\ stack[k].lit \notin Keys(running, stack[k].gamma)
         /\ negate(stack[k].lit) \notin Keys(running, stack[k].gamma)

C10_Witness ==
  /\ running = "Plain"
  /\ Len(stack) >= 2
  /\ Top.phase = "nlit"
  /\ Cardinality(Top.gamma) >= 1

(***************************************************************************)
(* C11. A clause built from the empty clause by pushes alone holds its     *)
(* literals strictly ascending, with no duplicate, Clause::invariant never *)
(* panics on it, and the push of a literal that is in the clause leaves    *)
(* the clause as it was.                                                   *)
(***************************************************************************)
StrictlyAscending(lits) ==
  \A i \in 1..(Len(lits) - 1) : LitLess(lits[i], lits[i + 1])

ElemsOf(lits) == {lits[i] : i \in 1..Len(lits)}

C11_PushKeepsSorted ==
  /\ [](clauseSt.on /\ clauseSt.origin = "empty" =>
          StrictlyAscending(clauseSt.lits) /\ ~clauseSt.panicked)
  /\ [][(clauseSt.on /\ clauseSt.origin = "empty" /\ clauseSt'.last # 0
         /\ clauseSt'.last \in ElemsOf(clauseSt.lits))
        => clauseSt'.lits = clauseSt.lits]_vars

C11_Witness ==
  /\ clauseSt.on
  /\ clauseSt.origin = "empty"
  /\ Len(clauseSt.lits) = MaxLits
  /\ clauseSt.last = clauseSt.lits[1]

(***************************************************************************)
(* C12. Every Clause value, built by Clause::new, by FromIterator or by    *)
(* pushes on one of those, holds its literals strictly ascending unless    *)
(* Clause::invariant has panicked on it.                                   *)
(***************************************************************************)
C12_EveryClauseStrictlyAscending ==
  (clauseSt.on /\ ~clauseSt.panicked) => StrictlyAscending(clauseSt.lits)

(***************************************************************************)
(* C13. In Cdcl, a call assume(l, c) on a state whose environment holds l  *)
(* (the state a successful assume(l, c1) returned) returns a state: the    *)
(* environment maps l to the dependency set it had united with c, it has   *)
(* the same keys, its other entries and the formula are unchanged, and the *)
(* call returns from the Occupied branch, where bcp is not run.            *)
(***************************************************************************)
LastLit(st) == st.calls[Len(st.calls)][1]

LastCause(st) == st.calls[Len(st.calls)][2]

C13_AssumeMerges ==
  [][(assumeSt.on /\ assumeSt.calls # <<>>
      /\ assumeSt' # assumeSt
      /\ assumeSt'.last[1] = LastLit(assumeSt))
     => /\ assumeSt'.status = "ok"
        /\ Len(assumeSt'.calls) = Len(assumeSt.calls) + 1
        /\ DOMAIN assumeSt'.gamma = DOMAIN assumeSt.gamma
        /\ \A k \in DOMAIN assumeSt.gamma :
             assumeSt'.gamma[k] =
               IF k = LastLit(assumeSt)
                 THEN assumeSt.gamma[k] \cup assumeSt'.last[2]
                 ELSE assumeSt.gamma[k]
        /\ assumeSt'.delta = assumeSt.delta
        /\ assumeSt'.merged]_vars

C13_Witness ==
  /\ assumeSt.on
  /\ Len(assumeSt.calls) = 2
  /\ assumeSt.calls[1][1] = assumeSt.calls[2][1]
  /\ assumeSt.calls[1][2] = {1}
  /\ assumeSt.calls[2][2] = {-2}
  /\ assumeSt.gamma[LastLit(assumeSt)] = {1, -2}
  /\ Cardinality(DOMAIN assumeSt.gamma) >= 2
  /\ assumeSt.delta # <<>>

(* C13 as stated: after assume(l, c1) and assume(l, c2) the environment    *)
(* maps l to c1 \cup c2.                                                   *)
C13_AsStated ==
  (assumeSt.on /\ Len(assumeSt.calls) >= 2
   /\ assumeSt.calls[Len(assumeSt.calls) - 1][1] = LastLit(assumeSt))
  => assumeSt.gamma[LastLit(assumeSt)] =
       assumeSt.calls[Len(assumeSt.calls) - 1][2] \cup LastCause(assumeSt)

(***************************************************************************)
(* C14. In Plain::unsat and Cdcl::unsat the branch of negate(lit) is       *)
(* assume(negate(lit)) applied to the environment and the formula of the   *)
(* call, as they were before lit was decided (in Cdcl the formula followed *)
(* by the shifted conflict clauses, in some order): the state of a call    *)
(* never changes while the call is on the stack, and the environment the   *)
(* branch starts with holds the environment of the call and not lit.       *)
(***************************************************************************)
FramesKept ==
  \A k \in 1..Len(stack) :
    k <= Len(stack') =>
      /\ stack'[k].gamma = stack[k].gamma
      /\ stack'[k].delta = stack[k].delta

NlitBranchFromCall ==
  LET me == stack'[Len(stack)]
      child == stack'[Len(stack')]
      nlit == negate(Top.lit)
  IN /\ me.phase = "nlit"
     /\ Keys(running, Top.gamma) \subseteq Keys(running, child.gamma)
     /\ Top.lit \notin Keys(running, child.gamma)
     /\ IF running = "Plain"
          THEN LET a == PlainAssume(Top.gamma, Top.delta, nlit)
               IN a.tag = "ok" /\ child.gamma = a.gamma
                  /\ child.delta = a.delta
          ELSE /\ me.conflict = CdclShift(Top.lit, ret.conflict)
               /\ \E order \in Orders(me.conflict) :
                    LET a == CdclAssume(Top.gamma, Top.delta \o order, nlit,
                                        ret.deps \ {Top.lit}, FALSE)
                    IN a.tag = "ok" /\ child.gamma = a.gamma
                       /\ child.delta = a.delta

C14_NlitBranchStartsFromCallState ==
  [][(running \in {"Plain", "Cdcl"} /\ running' = running /\ stack # <<>>)
     => /\ FramesKept
        /\ (Top.phase = "lit" /\ Len(stack') = Len(stack) + 1)
             => NlitBranchFromCall]_vars

C14_Witness ==
  /\ running = "Cdcl"
  /\ Len(stack) >= 2
  /\ stack[Len(stack) - 1].phase = "nlit"
  /\ stack[Len(stack) - 1].conflict # {}
  /\ Top.phase = "call"
  /\ Top.delta # <<>>

(***************************************************************************)
(* C15. Along the chain of the nested calls of unsat, of Plain and of      *)
(* Cdcl, each call is entered with strictly more assigned variables than   *)
(* its caller, and the chain is never longer than the number of variables  *)
(* of the formula plus one.                                                *)
(***************************************************************************)
AssignedVars(e, gamma) == {Abs(l) : l \in Keys(e, gamma)}

C15_DepthBound ==
  running \in {"Plain", "Cdcl"} =>
    /\ \A k \in 1..(Len(stack) - 1) :
         Cardinality(AssignedVars(running, stack[k + 1].gamma))
           > Cardinality(AssignedVars(running, stack[k].gamma))
    /\ \A k \in 1..Len(stack) :
         AssignedVars(running, stack[k].gamma) \subseteq VarsOf(formula)
    /\ Len(stack) <= Cardinality(VarsOf(formula)) + 1

C15_Witness ==
  /\ running = "Plain"
  /\ Len(stack) >= 3
  /\ Len(stack) = Cardinality(VarsOf(formula)) + 1

(***************************************************************************)
(* C16. When parse_run returns, every result has been walked, one error    *)
(* is reported for each variant that failed, the disagreement is reported  *)
(* whenever two variants that produced an outcome disagree on              *)
(* satisfiability, and Ok is returned exactly when no variant failed and   *)
(* all the verdicts agree.                                                 *)
(***************************************************************************)
Failed(res) == res.tag = "Err" \/ (res.sat /\ ~res.consistent)

CountIn(seq, x) == Cardinality({i \in 1..Len(seq) : seq[i] = x})

ErrorsOf(st) == {st.errors[i] : i \in 1..Len(st.errors)}

Disagreement(rs) ==
  \E i, j \in 1..Len(rs) :
    ~Failed(rs[i]) /\ ~Failed(rs[j]) /\ rs[i].sat # rs[j].sat

C16_CrossCheck ==
  (runnerSt.on /\ runnerSt.ret # "none") =>
    LET rs == runnerSt.results
    IN /\ runnerSt.pos = Len(rs) + 1
       /\ CountIn(runnerSt.errors, RunFailed)
            = Cardinality({i \in 1..Len(rs) : rs[i].tag = "Err"})
       /\ CountIn(runnerSt.errors, InconsistentModel)
            = Cardinality({i \in 1..Len(rs) : rs[i].tag = "Ok" /\ Failed(rs[i])})
       /\ Disagreement(rs) <=> DoNotAgree \in ErrorsOf(runnerSt)
       /\ runnerSt.ret = "Ok" <=>
            ((\A i \in 1..Len(rs) : ~Failed(rs[i])) /\ ~Disagreement(rs))

C16_Witness ==
  /\ runnerSt.on
  /\ runnerSt.ret = "Err"
  /\ runnerSt.results = <<RunErr, RunSat, RunUnsat>>
  /\ runnerSt.errors = <<RunFailed, DoNotAgree>>

(***************************************************************************)
(* C17. When Split::run has returned, every benchmark file of the source   *)
(* directory has been run, and sorted unless its own run failed: the       *)
(* failure of one file, the first one included, stops no other file.       *)
(***************************************************************************)
C17_FailureDoesNotStopBatch ==
  (splitSt.on /\ splitSt.ret # "none") =>
    \A f \in Files(splitSt) :
      /\ f \in splitSt.ran
      /\ splitSt.plan[f] # "fail" => f \in splitSt.sorted

(***************************************************************************)
(* C18. When Split::run returns Ok(stats), each counter of stats is the    *)
(* number of files with that result and their sum is the number of files,  *)
(* for every interleaving of the tasks; at most one task holds the write   *)
(* lock; and no task starts before the test run on the first file is done. *)
(***************************************************************************)
CountRes(st, res) == Cardinality({f \in Files(st) : st.plan[f] = res})

C18_StatsCountEachFileOnce ==
  splitSt.on =>
    /\ splitSt.ret = "Ok" =>
         /\ \A res \in RunRes : splitSt.stats[res] = CountRes(splitSt, res)
         /\ StatsAll(splitSt.stats) = Len(splitSt.plan)
    /\ Cardinality({f \in Workers(splitSt) :
                      splitSt.wpc[f] \in {"locked", "read"}}) <= 1
    /\ (\E f \in Workers(splitSt) : splitSt.wpc[f] # "todo") =>
         (splitSt.pc # "test" /\ 1 \in splitSt.sorted
          /\ StatsAll(splitSt.stats) >= 1)

C18_Witness ==
  /\ splitSt.on
  /\ splitSt.ret = "Ok"
  /\ splitSt.plan = <<"unknown", "sat", "sat">>
  /\ splitSt.stats.sat = 2

(***************************************************************************)
(* C19. When Parser::parse returns a formula, it holds one clause per line *)
(* that is not a comment and comes before the first line that is 0 alone,  *)
(* in the order of the text, each clause being the literals of its line up *)
(* to the 0 of the line; comment lines (c, %) and the lines after the line *)
(* 0 give no clause.                                                       *)
(***************************************************************************)
FirstEnd(text) ==
  IF \E i \in 1..Len(text) : text[i].first \notin {"c", "%"}
                               /\ text[i].toks = <<0>>
    THEN CHOOSE i \in 1..Len(text) :
           /\ text[i].first \notin {"c", "%"} /\ text[i].toks = <<0>>
           /\ \A j \in 1..(i - 1) :
                ~(text[j].first \notin {"c", "%"} /\ text[j].toks = <<0>>)
    ELSE Len(text) + 1

ClauseLines(text) ==
  {i \in 1..(FirstEnd(text) - 1) : text[i].first \notin {"c", "%"}}

LitsBeforeZero(toks) ==
  {toks[k] : k \in {j \in 1..Len(toks) : \A h \in 1..j : toks[h] # 0}}

C19_OneClausePerLine ==
  (parserSt.on /\ parserSt.status = "Ok") =>
    /\ Len(parserSt.cnf) = Cardinality(ClauseLines(parserSt.text))
    /\ ElemsOf(parserSt.from) = ClauseLines(parserSt.text)
    /\ \A k \in 1..Len(parserSt.cnf) :
         /\ k > 1 => parserSt.from[k - 1] < parserSt.from[k]
         /\ parserSt.cnf[k] =
              ClauseOf(LitsBeforeZero(parserSt.text[parserSt.from[k]].toks))
    /\ parserSt.cnf = Parse(parserSt.text).cnf

C19_Witness ==
  /\ parserSt.on
  /\ parserSt.status = "Ok"
  /\ Len(parserSt.text) = 3
  /\ parserSt.text[1].first = "c"
  /\ parserSt.text[2].toks = <<2, -1, 2, 0>>
  /\ parserSt.text[3] = Line(" ", <<0>>)
  /\ parserSt.cnf = << <<-1, 2>> >>

(***************************************************************************)
(* C20. Every state bcp returns is a fixpoint of the propagation: each     *)
(* clause of its delta has at least two literals, and no literal of a      *)
(* clause of delta is in its gamma, nor is the negation of one. This is    *)
(* stated of the states the calls of unsat run on, which Plain and Cdcl    *)
(* get from assume and its bcp, and of bcp applied to every state of the   *)
(* recursion, the first one included.                                      *)
(***************************************************************************)
Fixpoint(keys, clauses) ==
  \A i \in 1..Len(clauses) :
    /\ Len(clauses[i]) >= 2
    /\ \A j \in 1..Len(clauses[i]) :
         clauses[i][j] \notin keys /\ negate(clauses[i][j]) \notin keys

ClausesOf(e, delta) ==
  IF e = "Plain" THEN delta ELSE [i \in 1..Len(delta) |-> delta[i].clause]

BcpOf(e, frame) ==
  IF e = "Plain" THEN PlainBcp(frame.gamma, frame.delta)
  ELSE CdclBcp(frame.gamma, frame.delta, FALSE)

C20_BcpReachesFixpoint ==
  (running \in {"Plain", "Cdcl"}) =>
    \A k \in 1..Len(stack) :
      /\ k >= 2 => Fixpoint(Keys(running, stack[k].gamma),
                            ClausesOf(running, stack[k].delta))
      /\ LET r == BcpOf(running, stack[k])
         IN r.tag = "ok" =>
              Fixpoint(Keys(running, r.gamma), ClausesOf(running, r.delta))

C20_Witness ==
  /\ running = "Cdcl"
  /\ Len(stack) >= 2
  /\ Top.phase = "call"
  /\ Top.delta # <<>>
  /\ Cardinality(DOMAIN Top.gamma) >= 2

(***************************************************************************)
(* C21. Sat comes from the calls of unsat that are entered with an empty   *)
(* delta, and from them only: such a call returns Sat with its gamma as    *)
(* the model (for Cdcl the keys of gamma); every other call that returns   *)
(* Sat passes on, unchanged, the Sat of the call it made; a formula with   *)
(* no clause is Sat with the empty model and no decision.                  *)
(***************************************************************************)
Entered ==
  /\ running \in {"Plain", "Cdcl"}
  /\ stack # <<>>
  /\ Top.phase = "call"
  /\ ret.tag = "none"

SatStep ==
  /\ (Entered /\ Top.delta = <<>>) =>
       /\ ret'.tag = "sat"
       /\ ret'.gamma = Keys(running, Top.gamma)
       /\ stack' = Pop
  /\ (running \in {"Plain", "Cdcl"} /\ ret.tag # "sat" /\ ret'.tag = "sat")
       => (Entered /\ Top.delta = <<>>)
  /\ (running \in {"Plain", "Cdcl"} /\ ret.tag = "sat" /\ stack # <<>>)
       => (ret' = ret /\ stack' = Pop)
  /\ (running \in {"Plain", "Cdcl"} /\ ret.tag = "sat" /\ stack = <<>>)
       => (outcome'[running].tag = "sat"
           /\ outcome'[running].gamma = ret.gamma)
  /\ (formula = <<>> /\ running \in {"Plain", "Cdcl"}) =>
       /\ Len(stack) <= 1 /\ Len(stack') <= 1
       /\ ret.tag \in {"none", "sat"}
       /\ ret.tag = "sat" => ret.gamma = {}

FalseLits(gamma, clause) ==
  {l \in ElemsOf(clause) : negate(l) \in DOMAIN gamma}

UnknownLits(gamma, clause) ==
  {l \in ElemsOf(clause) :
     l \notin DOMAIN gamma /\ negate(l) \notin DOMAIN gamma}

ExpectedDeps(gamma, lclause) ==
  lclause.labels \cup
    UNION {gamma[negate(l)] : l \in FalseLits(gamma, lclause.clause)}

BcpTurn(gamma, lclause) == CdclBcpLoop(<<lclause>>, 1, gamma, <<>>, FALSE)

TurnAsClaimed(gamma, lclause) ==
  LET r == BcpTurn(gamma, lclause)
      deps == ExpectedDeps(gamma, lclause)
      left == UnknownLits(gamma, lclause.clause)
  IN IF \E l \in ElemsOf(lclause.clause) : l \in DOMAIN gamma
       THEN r.tag = "ok" /\ r.gamma = gamma /\ r.delta = <<>>
     ELSE IF left = {}
       THEN r.tag = "unsat" /\ r.deps = deps /\ r.conflict = {}
     ELSE IF Cardinality(left) = 1
       THEN r = CdclAssume(gamma, <<>>, CHOOSE l \in left : TRUE, deps, FALSE)
            /\ r.tag = "ok" /\ r.gamma[CHOOSE l \in left : TRUE] = deps
     ELSE /\ r.tag = "ok" /\ r.gamma = gamma
          /\ r.delta = <<LClauseNewWith(ClauseOf(left), deps)>>

Assumable(gamma) ==
  {l \in Literals : l \notin DOMAIN gamma /\ negate(l) \notin DOMAIN gamma}

C22_BcpDependencySets ==
  (running = "Cdcl") =>
    \A k \in 1..Len(stack) :
      \A i \in 1..Len(stack[k].delta) :
        /\ TurnAsClaimed(stack[k].gamma, stack[k].delta[i])
        /\ \A l \in Assumable(stack[k].gamma) :
             \A cause \in {{l}, stack[k].delta[i].labels} :
               TurnAsClaimed(EnvInsert(stack[k].gamma, l, cause),
                             stack[k].delta[i])

C22_Witness ==
  /\ running = "Cdcl"
  /\ stack # <<>>
  /\ \E i \in 1..Len(Top.delta) :
       \E l \in Assumable(Top.gamma) :
         LET g == EnvInsert(Top.gamma, l, {l})
         IN /\ Top.delta[i].labels # {}
            /\ l \notin Top.delta[i].labels
            /\ FalseLits(g, Top.delta[i].clause) # {}
            /\ Cardinality(UnknownLits(g, Top.delta[i].clause)) = 1
            /\ BcpTurn(g, Top.delta[i]).tag = "ok"

(***************************************************************************)
(* C23. Cdcl::shift(lit, S): every clause of S that has lit among its      *)
(* labels is in the result with negate(lit) among its literals and without *)
(* lit among its labels, every other clause of S is in the result as it    *)
(* is, the result holds nothing else, and no clause of the result has lit  *)
(* among its labels. Stated of the set of learned clauses of every         *)
(* refutation of the search of Cdcl, for the decision literal of the call  *)
(* that receives it and for every other literal.                           *)
(***************************************************************************)
Shifted(lit, lc, r) ==
  IF lit \in lc.labels
    THEN /\ ElemsOf(r.clause) = ElemsOf(lc.clause) \cup {negate(lit)}
         /\ StrictlyAscending(r.clause)
         /\ r.labels = lc.labels \ {lit}
    ELSE r = lc

ShiftAsClaimed(lit, S) ==
  LET res == CdclShift(lit, S)
  IN /\ \A lc \in S : \E r \in res : Shifted(lit, lc, r)
     /\ \A r \in res : \E lc \in S : Shifted(lit, lc, r)
     /\ \A r \in res : lit \notin r.labels

C23_ShiftRewritesLabelled ==
  (running = "Cdcl" /\ ret.tag = "unsat") =>
    \A lit \in Literals : ShiftAsClaimed(lit, ret.conflict)

C23_Witness ==
  /\ running = "Cdcl"
  /\ ret.tag = "unsat"
  /\ stack # <<>>
  /\ Top.phase = "lit"
  /\ \E lc \in ret.conflict : Top.lit \in lc.labels
  /\ \E lc \in ret.conflict : Top.lit \notin lc.labels

(***************************************************************************)
(* C24. In Cdcl::unsat, when the branch of lit is refuted with a           *)
(* dependency set that does not hold lit, the refutation is returned with  *)
(* that set unchanged (and the learned clauses of the branch, shifted) and *)
(* negate(lit) is not assumed; when the set holds lit, negate(lit) is      *)
(* assumed, with the set less lit as its cause: either unsat is called on  *)
(* the state assume returns, or assume fails and its outcome is returned.  *)
(***************************************************************************)
LitRefuted ==
  /\ running = "Cdcl"
  /\ stack # <<>>
  /\ Top.phase = "lit"
  /\ ret.tag = "unsat"

NlitAssumed(order) ==
  CdclAssume(Top.gamma, Top.delta \o order, negate(Top.lit),
             ret.deps \ {Top.lit}, FALSE)

BackjumpStep ==
  LitRefuted =>
    IF Top.lit \notin ret.deps
      THEN /\ stack' = Pop
           /\ ret'.tag = "unsat"
           /\ ret'.deps = ret.deps
           /\ ret'.conflict = CdclShift(Top.lit, ret.conflict)
      ELSE \E order \in Orders(CdclShift(Top.lit, ret.conflict)) :
             LET a == NlitAssumed(order)
             IN IF a.tag = "ok"
                  THEN /\ Len(stack') = Len(stack) + 1
                       /\ stack'[Len(stack)].phase = "nlit"
                       /\ stack'[Len(stack')].phase = "call"
                       /\ stack'[Len(stack')].gamma = a.gamma
                       /\ stack'[Len(stack')].delta = a.delta
                       /\ a.gamma[negate(Top.lit)] = ret.deps \ {Top.lit}
                       /\ ret'.tag = "none"
                  ELSE stack' = Pop /\ ret' = a

C24_BackjumpOnIndependentConflict == [][BackjumpStep]_vars

C24_Witness ==
  /\ LitRefuted
  /\ Top.lit \notin ret.deps
  /\ Len(stack) >= 2
  /\ ret.conflict # {}

(***************************************************************************)
(* C25. In Cdcl::unsat, when the branch of lit is refuted with (D, C), D   *)
(* holding lit, the call keeps D less lit and shift(lit, C); when unsat on *)
(* the state of assume(negate(lit)) is then refuted with (D2, C2), the     *)
(* call returns Unsat with the learned clauses shift(lit, C), C2 and the   *)
(* unit clause of negate(lit) labelled D less lit, and with the dependency *)
(* set D2 as it is; when assume(negate(lit)) itself is refuted, its Unsat  *)
(* is returned as it is, with no learned clause.                           *)
(***************************************************************************)
NlitRefuted ==
  /\ running = "Cdcl"
  /\ stack # <<>>
  /\ Top.phase = "nlit"
  /\ ret.tag = "unsat"

UnitOfNlit == LClauseNewWith(<<negate(Top.lit)>>, Top.deps)

LearnedKept ==
  (LitRefuted /\ Top.lit \in ret.deps) =>
    IF Len(stack') = Len(stack) + 1
      THEN /\ stack'[Len(stack)].deps = ret.deps \ {Top.lit}
           /\ stack'[Len(stack)].conflict = CdclShift(Top.lit, ret.conflict)
           /\ stack'[Len(stack)].lit = Top.lit
      ELSE /\ stack' = Pop
           /\ ret'.tag = "unsat" => ret'.conflict = {}

LearnedReturned ==
  NlitRefuted =>
    /\ stack' = Pop
    /\ ret'.tag = "unsat"
    /\ ret'.conflict = Top.conflict \cup ret.conflict \cup {UnitOfNlit}

LearnStep ==
  /\ LearnedKept
  /\ LearnedReturned
  /\ NlitRefuted => ret'.deps = ret.deps

C25_LearnedClausesAndDeps == [][LearnStep]_vars

LearnStepAsStated ==
  /\ LearnedReturned
  /\ NlitRefuted => ret'.deps = Top.deps \cup ret.deps

C25_AsStated == [][LearnStepAsStated]_vars

C25_Witness ==
  /\ NlitRefuted
  /\ Top.conflict # {}
  /\ ret.conflict # {}
  /\ Top.deps # {}

(***************************************************************************)
(* C26. The functional Plain engine returns Unsat only for formulas that   *)
(* no assignment satisfies: the refutation of the branch of lit is not the *)
(* result, Unsat is returned only when the branch of negate(lit) is        *)
(* refuted too.                                                            *)
(***************************************************************************)
C26_FunctionalUnsatIsSound ==
  (funSt.on /\ funSt.out.tag = "unsat") => ~Satisfiable(funSt.formula)

(***************************************************************************)
(* C27. Every learned clause of a refutation returned by Cdcl::unsat, and  *)
(* every shifted clause a call keeps for its branch of negate(lit), is a   *)
(* consequence of the formula under its labels: every assignment that      *)
(* satisfies the formula and holds every label of the clause holds a       *)
(* literal of the clause.                                                  *)
(***************************************************************************)
Assignments(F) ==
  {P \cup {negate(v) : v \in VarsOf(F) \ P} : P \in SUBSET VarsOf(F)}

Entailed(F, lclause) ==
  \A M \in Assignments(F) :
    (Satisfies(M, F) /\ lclause.labels \subseteq M) =>
      \E l \in ElemsOf(lclause.clause) : l \in M

C27_LearnedClausesAreConsequences ==
  (running = "Cdcl") =>
    /\ ret.tag = "unsat" => \A lc \in ret.conflict : Entailed(formula, lc)
    /\ \A k \in 1..Len(stack) :
         \A lc \in stack[k].conflict : Entailed(formula, lc)

C27_Witness ==
  /\ running = "Cdcl"
  /\ ret.tag = "unsat"
  /\ \E lc \in ret.conflict :
       /\ lc.labels # {}
       /\ \E M \in Assignments(formula) :
            Satisfies(M, formula) /\ lc.labels \subseteq M

(***************************************************************************)
(* C28. The dependency set and the labels of the learned clauses of every  *)
(* refutation a call of Cdcl::unsat (or the assume of its branch) hands to *)
(* its caller hold only decision literals that are in force there: the     *)
(* literals of the calls above that are in their branch of lit. The same   *)
(* holds of the dependency set and shifted clauses a call keeps for its    *)
(* branch of negate(lit). At the root the dependency set and all labels    *)
(* are empty.                                                              *)
(***************************************************************************)
InForce(k) ==
  {stack[j].lit : j \in {i \in 1..k : stack[i].phase = "lit"}}

LabelsOf(lclauses) == UNION {lc.labels : lc \in lclauses}

C28_DepsAreDecisionsInForce ==
  (running = "Cdcl") =>
    /\ ret.tag = "unsat" =>
         /\ ret.deps \subseteq InForce(Len(stack))
         /\ LabelsOf(ret.conflict) \subseteq InForce(Len(stack))
    /\ \A k \in 1..Len(stack) :
         stack[k].phase = "nlit" =>
           /\ stack[k].deps \subseteq InForce(k - 1)
           /\ LabelsOf(stack[k].conflict) \subseteq InForce(k - 1)

C28_Witness ==
  /\ running = "Cdcl"
  /\ ret.tag = "unsat"
  /\ ret.deps # {}
  /\ LabelsOf(ret.conflict) # {}
  /\ \E k \in 1..Len(stack) : stack[k].phase = "nlit"

(***************************************************************************)
(* C29. The verdict of Cdcl.solve is a function of the formula alone: in   *)
(* whatever orders the learned clauses were appended to the clauses of the *)
(* branches of negate(lit), the run ends Sat when the formula is           *)
(* satisfiable and Unsat when it is not (and on the panic of the empty     *)
(* disjunct when the first clause of the formula is empty).                *)
(***************************************************************************)
VerdictOf(F) ==
  IF F # <<>> /\ F[1] = <<>> THEN "panic"
  ELSE IF Satisfiable(F) THEN "sat"
  ELSE "unsat"

C29_VerdictIndependentOfOrder ==
  outcome["Cdcl"].tag # "none" => outcome["Cdcl"].tag = VerdictOf(formula)

(* A call in its branch of negate(lit) to which two or more learned        *)
(* clauses were appended, the branch entered.                              *)
C29_Witness ==
  /\ running = "Cdcl"
  /\ \E k \in 1..Len(stack) :
       /\ stack[k].phase = "nlit"
       /\ Cardinality(stack[k].conflict) >= 2
       /\ Cardinality(Orders(stack[k].conflict)) >= 2
       /\ Len(stack) > k

(***************************************************************************)
(* C30. In every call of Cdcl::shift of a run of Cdcl.solve (the call of   *)
(* unsat that receives the refutation of its branch of lit shifts the      *)
(* learned clauses by lit) no two distinct labelled clauses are rewritten  *)
(* to the same one: the result has as many clauses as the input and the    *)
(* assertion on _is_new never fails.                                       *)
(***************************************************************************)
ShiftCalled ==
  /\ running = "Cdcl"
  /\ stack # <<>>
  /\ Top.phase = "lit"
  /\ ret.tag = "unsat"

C30_ShiftNeverCollides ==
  /\ ShiftCalled =>
       /\ \A lc1, lc2 \in ret.conflict :
            lc1 # lc2 => ShiftOne(Top.lit, lc1) # ShiftOne(Top.lit, lc2)
       /\ Cardinality(CdclShift(Top.lit, ret.conflict))
            = Cardinality(ret.conflict)
  /\ ret.msg # NotNew
  /\ outcome["Cdcl"].msg # NotNew

C30_Witness ==
  /\ ShiftCalled
  /\ Cardinality({lc \in ret.conflict : Top.lit \in lc.labels}) >= 2
  /\ Cardinality(CdclShift(Top.lit, ret.conflict)) >= 2

====
